---------------------------- MODULE Spec2Model ----------------------------
(***************************************************************************)
(* Model of the Economix browser client (src/static/app.js): the polling   *)
(* scheduler, the reconciliation callbacks of the polled resources, the    *)
(* filter/pagination evaluation of the inventory and market lists, the     *)
(* unread-message tracker, the session (token) life cycle, the modal       *)
(* layer and the user-initiated writes.                                    *)
(*                                                                         *)
(* Every fetch is asynchronous: a call of a refresh function puts a        *)
(* request in flight and the .then callback is a separate action that      *)
(* takes one request of that resource out of flight, in any order.  The    *)
(* remote service is the environment: the result of a request is chosen    *)
(* when it is delivered.                                                   *)
(***************************************************************************)
EXTENDS Integers, Sequences, FiniteSets, TLC

(***************************************************************************)
(* Program constants.                                                      *)
(***************************************************************************)
itemsPerPage == 5
MAX_DOM_MESSAGES == 200
\* seconds
ITEM_CREATE_COOLDOWN == 60
TOKEN_MINE_COOLDOWN == 300
\* Date.now() counts milliseconds and is divided by 1000; the model keeps
\* every time in milliseconds and scales the durations instead
MsPerSecond == 1000

(***************************************************************************)
(* Bounds of the model.                                                    *)
(***************************************************************************)
\* largest message id the chat service hands out
MaxMsgId == 3
\* the unread counter is followed up to this value
MaxUnread == 7
\* requests of one resource that may be in flight together
MaxInFlight == 2
\* forced logouts followed within one life of the page
MaxForcedLogouts == 2
\* size of the largest collection the service returns
MaxItems == 12
\* largest page an evaluation is entered with
MaxPage == 3
\* write requests that may be in flight together
MaxWrites == 1
\* half minutes the clock is followed for
MaxClockSteps == 3

(***************************************************************************)
(* Values.                                                                 *)
(***************************************************************************)
NoToken == "null"
Tok == "tok"
Resources == {"stats", "banner", "account", "messages", "leaderboard", "market"}
\* data-tab values the script itself names; the remaining tabs of the page
\* behave like "dashboard" for every handler of the script
Tabs == {"dashboard", "chat", "adminDashboard", "modDashboard"}
\* the result of `let account = {}`: no type, no username
EmptyAccount == [type |-> "undefined", username |-> "undefined"]
\* an element the script has not written yet
NotRendered == "none"
\* a text shown or logged: its wording and the item secrets it spells out
Msg(text) == [text |-> text, secrets |-> {}]
\* what a modal button does when clicked: the .then of the pending promise
NoThen == [k |-> "none", id |-> 0]
\* .modal { display: none }, no handler assigned
HiddenModal ==
  [shown |-> FALSE, message |-> Msg(""), input |-> FALSE, cancelShown |-> FALSE,
   okThen |-> NoThen, cancelThen |-> NoThen, closeThen |-> NoThen]
NoLine == Msg("")
NoWrite == [op |-> "none", outcome |-> "none", alerted |-> FALSE]

Max(a, b) == IF a >= b THEN a ELSE b
Min(a, b) == IF a <= b THEN a ELSE b
\* Math.ceil(n / d) for n >= 0, d > 0
CeilDiv(n, d) == (n + d - 1) \div d
\* Array.prototype.slice(from, to), 0-based and to exclusive: an index below
\* 0 counts from the end, one beyond the array is its length, and nothing
\* is returned when from is not before to
Slice(s, from, to) ==
  LET rel(k) == IF k < 0 THEN Max(Len(s) + k, 0) ELSE Min(k, Len(s))
  IN IF rel(from) >= rel(to) THEN <<>> ELSE SubSeq(s, rel(from) + 1, rel(to))
RECURSIVE SelectSeqIn(_, _)
\* the members of the set ids, in increasing order
SelectSeqIn(ids, n) ==
  IF n = 0 THEN <<>>
  ELSE IF n \in ids THEN Append(SelectSeqIn(ids, n - 1), n)
       ELSE SelectSeqIn(ids, n - 1)
Range(s) == {s[i] : i \in 1..Len(s)}

(***************************************************************************)
(* Text: a string is a sequence of characters.                             *)
(***************************************************************************)
LowerChar(c) ==
  CASE c = "R" -> "r" [] c = "E" -> "e" [] c = "D" -> "d" [] c = "O" -> "o"
    [] c = "L" -> "l" [] c = "A" -> "a" [] c = "X" -> "x" [] c = "B" -> "b"
    [] OTHER -> c
\* String.prototype.toLowerCase
ToLowerCase(s) == [i \in 1..Len(s) |-> LowerChar(s[i])]
\* String.prototype.includes
Includes(s, sub) ==
  \E k \in 0..(Len(s) - Len(sub)) : SubSeq(s, k + 1, k + Len(sub)) = sub
DigitChar(d) ==
  CASE d = 0 -> "0" [] d = 1 -> "1" [] d = 2 -> "2" [] d = 3 -> "3" [] d = 4 -> "4"
    [] d = 5 -> "5" [] d = 6 -> "6" [] d = 7 -> "7" [] d = 8 -> "8" [] OTHER -> "9"
DigitOf(c) == CHOOSE d \in 0..9 : DigitChar(d) = c
\* the decimal text of a number below 100, as a template literal prints it
NumberText(n) ==
  IF n < 10 THEN <<DigitChar(n)>> ELSE <<DigitChar(n \div 10), DigitChar(n % 10)>>
RECURSIVE NumberOf(_)
\* Number(text) for a non-empty text of decimal digits
NumberOf(s) ==
  IF Len(s) = 1 THEN DigitOf(s[1])
  ELSE 10 * NumberOf(SubSeq(s, 1, Len(s) - 1)) + DigitOf(s[Len(s)])

(***************************************************************************)
(* Items as the service returns them.  Item n of the universe:             *)
(* odd n are "Red", even n "Old"; even n are of level "rare" and for sale. *)
(* A collection is held as the sequence of its items' numbers; ItemOf      *)
(* gives the item.                                                         *)
(***************************************************************************)
ItemOf(n) ==
  [id |-> n,
   name |-> [adjective |-> IF n % 2 = 1 THEN <<"R", "e", "d">> ELSE <<"O", "l", "d">>,
             material |-> <<"o", "a", "k">>,
             noun |-> <<"A", "x", "e">>,
             suffix |-> <<"X">>,
             number |-> NumberText(n)],
   level |-> IF n % 2 = 0 THEN "rare" ELSE "common",
   for_sale |-> n % 2 = 0,
   price |-> n,
   owner |-> IF n % 3 = 0 THEN <<"B", "o", "b">> ELSE <<"A", "d", "a">>,
   item_secret |-> 100 + n]
ItemsUpTo(n) == [k \in 1..n |-> k]
\* the collections the service returns for the inventory and for the market
Collections == {ItemsUpTo(n) : n \in {0, 3, MaxItems - 4, MaxItems}}
\* the composed display name both filters match against
FullName(n) ==
  LET item == ItemOf(n)
  IN ToLowerCase(item.name.adjective \o <<" ">> \o item.name.material \o <<" ">>
                 \o item.name.noun \o <<" ">> \o item.name.suffix \o <<" ", "#">>
                 \o item.name.number)

VARIABLES
  \* --- session and page ---
  storedToken,      \* localStorage 'token'
  token,            \* the script's `token` variable
  reloadPending,    \* location.reload() was called, the document is still live
  forcedLogouts,    \* executions of the rejection branch of refreshAccount in this page life
  \* --- network ---
  inflight,         \* resource -> sequence (issue order) of the tokens sent
  older,            \* observation: resource -> how many of its requests in flight were
                    \* issued before the request whose response was applied last
  \* --- chat and unread tracker ---
  globalMessages,
  chatDom,          \* children of #globalMessages, oldest first
  unreadMessages,
  isChatFocused,
  activeTab,        \* data-tab of the .tab.active button
  badge,            \* #chatNotificationBadge: text and display
  newMessagesMark,  \* class new-messages on the chat tab button
  \* --- account ---
  account,
  items,
  pets,
  adminTabShown,    \* display of #adminDashboardTabButton
  modTabShown,      \* display of #modDashboardTabButton
  mainContentShown, \* display of #mainContent
  bannedPageShown,  \* display of #bannedPage
  \* --- inventory list ---
  invCtl,           \* values of #inventorySearch, #inventoryRarityFilter, #inventorySaleFilter
  inventorySearchQuery,
  inventoryRarityFilter,
  inventorySaleFilter,
  inventoryPage,
  invView,          \* #itemsList and #inventoryPagination as last rendered
  \* --- market list ---
  marketItems,
  mktCtl,           \* values of #marketSearch ... #marketSellerFilter
  marketSearchQuery,
  marketRarityFilter,
  marketPriceMin,
  marketPriceMax,
  marketSellerFilter,
  marketPage,
  mktView,          \* #marketList and #marketplacePagination as last rendered
  messageSound,     \* the Audio of line 29: "idle" or "playing"
  \* --- the other polled resources ---
  statsDom,         \* #stats as last rendered
  bannerDom,        \* #banner: display and text
  leaderboardDom,   \* #leaderboard as last rendered
  \* --- the modal layer and the writes ---
  modal,            \* #customModal: display, message, buttons and their onclick
  consoleLog,       \* the line console.log wrote last
  writes,           \* write requests in flight, in the order they were issued
  lastWrite,        \* the write response handled last, and whether it alerted
  \* --- the cooldown lines ---
  clock,            \* Date.now()
  cooldownDom,      \* #cooldown as last written
  mineCooldownDom,  \* #mineCooldown as last written
  renderedAt,       \* the clock when the cooldown lines were last written; 0 before
  \* --- observation of the chat service ---
  renderedIds,      \* ids of the messages rendered so far in this page life
  newArrived,       \* messages first rendered while the chat view was not active, since its last activation
  lastFetched,      \* data.messages of the chat response handled last
  \* --- observation of the filter evaluations ---
  lastEval          \* the list last evaluated, what the controls then held against the stored
                    \* filter, the page it was entered with, the control values read and
                    \* whether it followed an evaluation of the same list, and the tab
                    \* its callback found active; NoEval after a page click

sessionVars == <<storedToken, token, reloadPending, forcedLogouts>>
netVars == <<inflight, older>>
chatVars == <<globalMessages, chatDom, unreadMessages, isChatFocused, activeTab,
              badge, newMessagesMark>>
accountVars == <<account, items, pets, adminTabShown, modTabShown,
                 mainContentShown, bannedPageShown>>
invFilterVars == <<inventorySearchQuery, inventoryRarityFilter, inventorySaleFilter>>
invVars == <<invCtl, invFilterVars, inventoryPage, invView>>
mktFilterVars == <<marketSearchQuery, marketRarityFilter, marketPriceMin,
                   marketPriceMax, marketSellerFilter>>
mktVars == <<marketItems, mktCtl, mktFilterVars, marketPage, mktView>>
domVars == <<statsDom, bannerDom, leaderboardDom>>
modalVars == <<modal, consoleLog>>
writeVars == <<writes, lastWrite>>
cooldownVars == <<clock, cooldownDom, mineCooldownDom, renderedAt>>
miscVars == <<domVars, modalVars, writeVars, cooldownVars, lastFetched>>
otherVars == <<renderedIds, newArrived, messageSound, miscVars>>
vars == <<sessionVars, netVars, chatVars, accountVars, invVars, mktVars, otherVars,
          lastEval>>

(***************************************************************************)
(* The chat service returns its messages in arrival order; ids increase    *)
(* with arrival.  A message is its id.                                     *)
(***************************************************************************)
ChatLists == {SelectSeqIn(ids, MaxMsgId) : ids \in SUBSET (1..MaxMsgId)}
\* a history one longer than the chat view keeps
ManyMessages == [k \in 1..(MAX_DOM_MESSAGES + 1) |-> k]
\* no chat response handled yet: the list of no message (ids start at 1)
NoneFetched == <<0>>

(***************************************************************************)
(* Issuing a request: fetch(...) with the token the caller reads.          *)
(***************************************************************************)
\* refreshAccount and refreshMarket read localStorage, the others the variable
TokenSent(r) == IF r \in {"account", "market"} THEN storedToken ELSE token

\* the order of the requests of a resource is not observed
NotFollowed == -1

Issue(fl, R) ==
  [r \in Resources |-> IF r \in R THEN Append(fl[r], TokenSent(r)) ELSE fl[r]]

RemoveAt(s, i) == SubSeq(s, 1, i - 1) \o SubSeq(s, i + 1, Len(s))

\* the response of the i-th request in flight of resource r is delivered
Deliver(r, i) ==
  /\ inflight' = [inflight EXCEPT ![r] = RemoveAt(@, i)]
  /\ older' = IF older[r] = NotFollowed THEN older
              ELSE [older EXCEPT ![r] = i - 1]

\* the i-th request in flight of resource r ends without a response that
\* is applied
Drop(r, i) ==
  /\ inflight' = [inflight EXCEPT ![r] = RemoveAt(@, i)]
  /\ older' = IF older[r] # NotFollowed /\ i <= older[r]
                THEN [older EXCEPT ![r] = @ - 1]
                ELSE older

\* the result of a request of resource r is handled in this step
Handled(r) ==
  /\ Len(inflight'[r]) < Len(inflight[r])
  /\ \A o \in Resources \ {r} : inflight'[o] = inflight[o]

CanIssue(R) == \A r \in R : Len(inflight[r]) < MaxInFlight

(***************************************************************************)
(* updateNotificationBadge, as a function of the counter it reads.         *)
(***************************************************************************)
\* the badge shown whatever the count
BadgeAlwaysShown(n) == [text |-> n, shown |-> TRUE]

\* badge.textContent = unreadMessages;
\* badge.style.display = unreadMessages > 0 ? 'block' : 'none'
BadgeOf(n) == [text |-> n, shown |-> n > 0]


(***************************************************************************)
(* The filter controls of the page.  The script reads their values; the    *)
(* values before the user touches them are those the script's own filter   *)
(* variables start with.                                                   *)
(***************************************************************************)
InitialInvCtl == [search |-> <<>>, rarity |-> "", sale |-> "all"]
InitialMktCtl == [search |-> <<>>, rarity |-> "", priceMin |-> <<>>,
                  priceMax |-> <<>>, seller |-> <<>>]
SearchTexts == {<<>>, <<"r", "e">>, <<"R", "E">>}
\* "epic": a level no item of the collections has
Rarities == {"", "rare", "epic"}
SaleFilters == {"all", "forsale", "notforsale"}
PriceTexts == {<<>>, <<"3">>, <<"6">>}
SellerTexts == {<<>>, <<"B", "o">>}
InvCtls == [search : SearchTexts, rarity : Rarities, sale : SaleFilters]
MktCtls == [search : {<<>>, <<"R", "E">>}, rarity : Rarities,
            priceMin : {<<>>, <<"3">>}, priceMax : {<<>>, <<"6">>},
            seller : SellerTexts]

NoEval == [list |-> "none", changed |-> FALSE, pageIn |-> 0, ctl |-> <<>>,
           again |-> FALSE, tabIn |-> "none"]
\* what an evaluation of the inventory (market) filters finds on entry
InvEvalEntry(p) ==
  [list |-> "inventory",
   changed |-> <<ToLowerCase(invCtl.search), invCtl.rarity, invCtl.sale>>
                 # <<inventorySearchQuery, inventoryRarityFilter, inventorySaleFilter>>,
   pageIn |-> p,
   ctl |-> invCtl,
   \* the list's last operation was an evaluation too
   again |-> lastEval.list = "inventory",
   \* the tab that was active when the callback began
   tabIn |-> activeTab]
MktEvalEntry(p) ==
  [list |-> "market",
   changed |-> <<ToLowerCase(mktCtl.search), mktCtl.rarity, mktCtl.priceMin,
                 mktCtl.priceMax, ToLowerCase(mktCtl.seller)>>
                 # <<marketSearchQuery, marketRarityFilter, marketPriceMin,
                     marketPriceMax, marketSellerFilter>>,
   pageIn |-> p,
   ctl |-> mktCtl,
   again |-> lastEval.list = "market",
   tabIn |-> activeTab]

\* the lists before the first render: no entries, no pagination buttons
NoView == [rendered |-> FALSE, list |-> <<>>, paged |-> <<>>, page |-> 0,
           totalPages |-> 0, total |-> 0, prevDisabled |-> TRUE,
           nextDisabled |-> TRUE, controls |-> {}]

(***************************************************************************)
(* renderInventory(inventoryItems) at page p, for the stored account acct. *)
(* list is the array the pagination closures keep.                         *)
(***************************************************************************)
\* renderInventory with a slice one entry too long
\* an empty list counted as one page
RenderInventoryAtLeastOnePage(list, p, acct) ==
  LET startIndex == (p - 1) * itemsPerPage
      pagedItems == Slice(list, startIndex, startIndex + itemsPerPage)
      totalPages == Max(1, CeilDiv(Len(list), itemsPerPage))
  IN [rendered |-> TRUE, list |-> list, paged |-> pagedItems, page |-> p,
      totalPages |-> totalPages, total |-> Len(list),
      prevDisabled |-> p = 1, nextDisabled |-> p >= totalPages,
      controls |-> IF acct.type = "admin" THEN {"edit", "delete"} ELSE {}]

RenderInventoryWideSlice(list, p, acct) ==
  LET startIndex == (p - 1) * itemsPerPage
      pagedItems == Slice(list, startIndex, startIndex + itemsPerPage + 1)
      totalPages == CeilDiv(Len(list), itemsPerPage)
  IN [rendered |-> TRUE, list |-> list, paged |-> pagedItems, page |-> p,
      totalPages |-> totalPages, total |-> Len(list),
      prevDisabled |-> p = 1, nextDisabled |-> p >= totalPages,
      controls |-> IF acct.type = "admin" THEN {"edit", "delete"} ELSE {}]

RenderInventory(list, p, acct) ==
  LET startIndex == (p - 1) * itemsPerPage
      pagedItems == Slice(list, startIndex, startIndex + itemsPerPage)
      totalPages == CeilDiv(Len(list), itemsPerPage)
  IN [rendered |-> TRUE, list |-> list, paged |-> pagedItems, page |-> p,
      totalPages |-> totalPages, total |-> Len(list),
      prevDisabled |-> p = 1, nextDisabled |-> p >= totalPages,
      controls |-> IF acct.type = "admin" THEN {"edit", "delete"} ELSE {}]

\* renderMarketplace(marketItems) at page p; controls: the ids with a buy button
RenderMarketplace(list, p, acct) ==
  LET startIndex == (p - 1) * itemsPerPage
      pagedItems == Slice(list, startIndex, startIndex + itemsPerPage)
      totalPages == CeilDiv(Len(list), itemsPerPage)
  IN [rendered |-> TRUE, list |-> list, paged |-> pagedItems, page |-> p,
      totalPages |-> totalPages, total |-> Len(list),
      prevDisabled |-> p = 1, nextDisabled |-> p >= totalPages,
      controls |-> {n \in Range(pagedItems) : ItemOf(n).owner # acct.username}]

(***************************************************************************)
(* applyInventoryFilters(its), entered with inventoryPage = p: the new     *)
(* filter variables, the page and the rendered view.                       *)
(***************************************************************************)
\* the comparison without the sale filter
InvFilterChangedNoSale(q, r, sl) ==
  \/ inventorySearchQuery # q
  \/ inventoryRarityFilter # r

\* the comparison inverted
InvFilterChangedInverted(q, r, sl) ==
  /\ inventorySearchQuery = q
  /\ inventoryRarityFilter = r
  /\ inventorySaleFilter = sl

InvFilterChanged(q, r, sl) ==
  \/ inventorySearchQuery # q
  \/ inventoryRarityFilter # r
  \/ inventorySaleFilter # sl

InvMatches(n, q, r, sl) ==
  LET item == ItemOf(n) IN
  /\ Includes(FullName(n), q)
  /\ (r = "" \/ item.level = r)
  /\ CASE sl = "forsale" -> item.for_sale
        [] sl = "notforsale" -> ~item.for_sale
        [] OTHER -> TRUE

ApplyInventoryFilters(its, p, acct) ==
  LET q == ToLowerCase(invCtl.search)
      r == invCtl.rarity
      sl == invCtl.sale
      page == IF InvFilterChanged(q, r, sl) THEN 1 ELSE p
      filtered == SelectSeq(its, LAMBDA n : InvMatches(n, q, r, sl))
  IN [query |-> q, rarity |-> r, sale |-> sl, page |-> page,
      view |-> RenderInventory(filtered, page, acct)]

\* the assignments of one evaluation
InvEvaluated(ev) ==
  /\ inventorySearchQuery' = ev.query
  /\ inventoryRarityFilter' = ev.rarity
  /\ inventorySaleFilter' = ev.sale
  /\ inventoryPage' = ev.page
  /\ invView' = ev.view

(***************************************************************************)
(* applyMarketFilters(its), entered with marketPage = p.                   *)
(***************************************************************************)
MktFilterChanged(q, r, lo, hi, sel) ==
  \/ marketSearchQuery # q
  \/ marketRarityFilter # r
  \/ marketPriceMin # lo
  \/ marketPriceMax # hi
  \/ marketSellerFilter # sel

\* the price test with the lower bound exclusive
MktMatchesExclusive(n, q, r, lo, hi, sel) ==
  LET item == ItemOf(n) IN
  /\ Includes(FullName(n), q)
  /\ (r = "" \/ item.level = r)
  /\ (lo = <<>> \/ item.price > NumberOf(lo))
  /\ (hi = <<>> \/ item.price <= NumberOf(hi))
  /\ (sel = <<>> \/ Includes(ToLowerCase(item.owner), sel))

\* a blank bound is -Infinity / Infinity
MktMatches(n, q, r, lo, hi, sel) ==
  LET item == ItemOf(n) IN
  /\ Includes(FullName(n), q)
  /\ (r = "" \/ item.level = r)
  /\ (lo = <<>> \/ item.price >= NumberOf(lo))
  /\ (hi = <<>> \/ item.price <= NumberOf(hi))
  /\ (sel = <<>> \/ Includes(ToLowerCase(item.owner), sel))

ApplyMarketFilters(its, p, acct) ==
  LET q == ToLowerCase(mktCtl.search)
      r == mktCtl.rarity
      lo == mktCtl.priceMin
      hi == mktCtl.priceMax
      sel == ToLowerCase(mktCtl.seller)
      page == IF MktFilterChanged(q, r, lo, hi, sel) THEN 1 ELSE p
      filtered == SelectSeq(its, LAMBDA n : MktMatches(n, q, r, lo, hi, sel))
  IN [query |-> q, rarity |-> r, priceMin |-> lo, priceMax |-> hi, seller |-> sel,
      page |-> page, view |-> RenderMarketplace(filtered, page, acct)]

MktFiltersStored(ev) ==
  /\ marketSearchQuery' = ev.query
  /\ marketRarityFilter' = ev.rarity
  /\ marketPriceMin' = ev.priceMin
  /\ marketPriceMax' = ev.priceMax
  /\ marketSellerFilter' = ev.seller
  /\ marketPage' = ev.page

(***************************************************************************)
(* The user edits a filter control.                                        *)
(***************************************************************************)
SetInventoryControl(c) ==
  /\ c \in InvCtls
  /\ c # invCtl
  /\ invCtl' = c
  /\ UNCHANGED <<invFilterVars, inventoryPage, invView>>
  /\ UNCHANGED <<sessionVars, netVars, chatVars, accountVars, mktVars, otherVars, lastEval>>

SetMarketControl(c) ==
  /\ c \in MktCtls
  /\ c # mktCtl
  /\ mktCtl' = c
  /\ UNCHANGED <<marketItems, mktFilterVars, marketPage, mktView>>
  /\ UNCHANGED <<sessionVars, netVars, chatVars, accountVars, invVars, otherVars, lastEval>>

(***************************************************************************)
(* The pagination buttons: the onclick closures of the last render.        *)
(***************************************************************************)
\* the Previous button without its test of the page
InventoryPrevUnguarded ==
  /\ inventoryPage' = inventoryPage - 1
  /\ invView' = RenderInventory(invView.list, inventoryPage - 1, account)
  /\ UNCHANGED <<invCtl, invFilterVars>>
  /\ UNCHANGED <<sessionVars, netVars, chatVars, accountVars, mktVars, otherVars>>
  /\ lastEval' = NoEval

InventoryPrev ==
  /\ ~invView.prevDisabled
  /\ inventoryPage > 1
  /\ inventoryPage' = inventoryPage - 1
  /\ invView' = RenderInventory(invView.list, inventoryPage - 1, account)
  /\ UNCHANGED <<invCtl, invFilterVars>>
  /\ UNCHANGED <<sessionVars, netVars, chatVars, accountVars, mktVars, otherVars>>
  /\ lastEval' = NoEval

\* the Next closure with the bound off by one, on a button left enabled
InventoryNextOffByOne ==
  /\ invView.rendered
  /\ inventoryPage <= invView.totalPages
  /\ inventoryPage' = inventoryPage + 1
  /\ invView' = RenderInventory(invView.list, inventoryPage + 1, account)
  /\ UNCHANGED <<invCtl, invFilterVars>>
  /\ UNCHANGED <<sessionVars, netVars, chatVars, accountVars, mktVars, otherVars>>
  /\ lastEval' = NoEval

InventoryNext ==
  /\ ~invView.nextDisabled
  /\ inventoryPage < invView.totalPages
  /\ inventoryPage' = inventoryPage + 1
  /\ invView' = RenderInventory(invView.list, inventoryPage + 1, account)
  /\ UNCHANGED <<invCtl, invFilterVars>>
  /\ UNCHANGED <<sessionVars, netVars, chatVars, accountVars, mktVars, otherVars>>
  /\ lastEval' = NoEval

MarketPrev ==
  /\ ~mktView.prevDisabled
  /\ marketPage > 1
  /\ marketPage' = marketPage - 1
  /\ mktView' = RenderMarketplace(mktView.list, marketPage - 1, account)
  /\ UNCHANGED <<marketItems, mktCtl, mktFilterVars>>
  /\ UNCHANGED <<sessionVars, netVars, chatVars, accountVars, invVars, otherVars>>
  /\ lastEval' = NoEval

MarketNext ==
  /\ ~mktView.nextDisabled
  /\ marketPage < mktView.totalPages
  /\ marketPage' = marketPage + 1
  /\ mktView' = RenderMarketplace(mktView.list, marketPage + 1, account)
  /\ UNCHANGED <<marketItems, mktCtl, mktFilterVars>>
  /\ UNCHANGED <<sessionVars, netVars, chatVars, accountVars, invVars, otherVars>>
  /\ lastEval' = NoEval

(***************************************************************************)
(* switchTab(tabName): the effect on the tracker and on the active tab.    *)
(***************************************************************************)
\* switchTab without the reset of the counter
SwitchTabKeepsCount(tabName) ==
  /\ IF tabName = "chat"
       THEN /\ newMessagesMark' = FALSE
            /\ isChatFocused' = TRUE
            /\ UNCHANGED <<unreadMessages, badge>>
       ELSE /\ isChatFocused' = FALSE
            /\ UNCHANGED <<unreadMessages, badge, newMessagesMark>>
  /\ activeTab' = tabName

\* switchTab resetting the counter for every tab
SwitchTabResetsAlways(tabName) ==
  /\ unreadMessages' = 0
  /\ badge' = BadgeOf(0)
  /\ IF tabName = "chat"
       THEN /\ newMessagesMark' = FALSE
            /\ isChatFocused' = TRUE
       ELSE /\ isChatFocused' = FALSE
            /\ UNCHANGED newMessagesMark
  /\ activeTab' = tabName

SwitchTab(tabName) ==
  /\ IF tabName = "chat"
       THEN /\ unreadMessages' = 0
            /\ badge' = BadgeOf(0)
            /\ newMessagesMark' = FALSE
            /\ isChatFocused' = TRUE
       ELSE /\ isChatFocused' = FALSE
            /\ UNCHANGED <<unreadMessages, badge, newMessagesMark>>
  /\ activeTab' = tabName

\* a tab button the user can click
TabVisible(t) ==
  \/ t \in {"dashboard", "chat"}
  \/ t = "adminDashboard" /\ adminTabShown
  \/ t = "modDashboard" /\ modTabShown

\* click on a .tab button
SwitchTabClick(t) ==
  /\ TabVisible(t)
  /\ SwitchTab(t)
  /\ newArrived' = IF t = "chat" THEN 0 ELSE newArrived
  /\ UNCHANGED <<globalMessages, chatDom, renderedIds, messageSound, miscVars>>
  /\ UNCHANGED <<sessionVars, netVars, accountVars, invVars, mktVars, lastEval>>

(***************************************************************************)
(* appendMessage and handleNewMessage, on the tracker state                *)
(* st = [unread, badge, mark, sound, dom].                                 *)
(***************************************************************************)
\* the element appendMessage builds: the message and its delete control
MessageEl(m) == [id |-> m, del |-> account.type \in {"admin", "mod"}]

\* the trim removing the last elements instead of the first
TrimDomKeepsOldest(dom) ==
  IF Len(dom) > MAX_DOM_MESSAGES
    THEN SubSeq(dom, 1, MAX_DOM_MESSAGES)
    ELSE dom

\* while (messageElements.length > MAX_DOM_MESSAGES) removeChild(first)
TrimDom(dom) ==
  IF Len(dom) > MAX_DOM_MESSAGES
    THEN SubSeq(dom, Len(dom) - MAX_DOM_MESSAGES + 1, Len(dom))
    ELSE dom

\* the element put before the others
AppendMessageAtTop(dom, m) == TrimDom(<<MessageEl(m)>> \o dom)

\* messagesContainer.appendChild(messageEl), then the trim
AppendMessage(dom, m) == TrimDom(Append(dom, MessageEl(m)))

\* never assigned after its declaration
soundEnabled == TRUE

\* handleNewMessage without the test of the active tab
HandleNewMessageAnyTab(st, m) ==
  [unread |-> st.unread + 1,
   badge  |-> BadgeOf(st.unread + 1),
   mark   |-> st.mark \/ ~isChatFocused,
   sound  |-> IF soundEnabled THEN "playing" ELSE st.sound,
   dom    |-> AppendMessage(st.dom, m)]

HandleNewMessage(st, m) ==
  LET counted == activeTab # "chat"
      n == IF counted THEN st.unread + 1 ELSE st.unread
  IN [unread |-> n,
      badge  |-> IF counted THEN BadgeOf(n) ELSE st.badge,
      mark   |-> st.mark \/ ~isChatFocused,
      sound  |-> IF counted /\ soundEnabled THEN "playing" ELSE st.sound,
      dom    |-> AppendMessage(st.dom, m)]

RECURSIVE HandleRange(_, _, _, _)
\* the messages lo..hi of msgs handled one after the other, first to last:
\* the first half of the range, then the second half on the state the
\* first half left (halved and bound to a value to keep the evaluation
\* shallow)
HandleRange(st, msgs, lo, hi) ==
  IF lo > hi THEN st
  ELSE IF lo = hi THEN HandleNewMessage(st, msgs[lo])
  ELSE LET mid == (lo + hi) \div 2
           done == {HandleRange(half, msgs, mid + 1, hi) :
                      half \in {HandleRange(st, msgs, lo, mid)}}
       IN CHOOSE out \in done : TRUE

\* data.messages.forEach(message => handleNewMessage(message))
HandleAll(st, msgs) == HandleRange(st, msgs, 1, Len(msgs))

\* the notification sound plays to its end
SoundEnded ==
  /\ messageSound = "playing"
  /\ messageSound' = "idle"
  /\ UNCHANGED <<renderedIds, newArrived, miscVars>>
  /\ UNCHANGED <<sessionVars, netVars, chatVars, accountVars, invVars, mktVars, lastEval>>

\* the pre-check comparing the lists themselves
NoNewMessagesByContent(fetched) == fetched = globalMessages

\* the count pre-check of refreshGlobalMessages
NoNewMessages(fetched) == Len(fetched) = Len(globalMessages)

(***************************************************************************)
(* The .then callback of refreshGlobalMessages.                            *)
(***************************************************************************)
\* data.messages is present
MessagesResponse(i, fetched) ==
  /\ i \in 1..Len(inflight["messages"])
  /\ inflight["messages"][i] = Tok
  /\ fetched \in Seq(Nat)
  /\ Deliver("messages", i)
  /\ lastFetched' = fetched
  /\ UNCHANGED <<domVars, modalVars, writeVars, cooldownVars>>
  /\ IF NoNewMessages(fetched)
       THEN UNCHANGED <<chatVars, renderedIds, newArrived, messageSound>>
       ELSE LET st == HandleAll([unread |-> unreadMessages, badge |-> badge,
                                 mark |-> newMessagesMark,
                                 sound |-> messageSound, dom |-> <<>>], fetched)
                fresh == Range(fetched) \ renderedIds
            IN /\ activeTab # "chat" => unreadMessages + Len(fetched) <= MaxUnread
               /\ unreadMessages' = st.unread
               /\ badge' = st.badge
               /\ newMessagesMark' = st.mark
               /\ messageSound' = st.sound
               /\ chatDom' = st.dom
               /\ globalMessages' = fetched
               /\ renderedIds' = renderedIds \cup fresh
               /\ newArrived' = IF activeTab # "chat"
                                  THEN newArrived + Cardinality(fresh)
                                  ELSE newArrived
               /\ UNCHANGED <<isChatFocused, activeTab>>
  /\ UNCHANGED <<sessionVars, accountVars, invVars, mktVars, lastEval>>

(***************************************************************************)
(* The .then callback of refreshAccount.  data is the parsed body.         *)
(***************************************************************************)
\* an account body that is neither an error nor a ban
AccountData(type, username, its, pts) ==
  [banned |-> FALSE, type |-> type, username |-> username, items |-> its,
   pets |-> pts, last_item_time |-> 0, last_mine_time |-> 0]
BannedData == [banned |-> TRUE]

\* the test of the admin branch left out
LosesTabNotForAdmin(type, tab) ==
  CASE type = "admin" -> FALSE
    [] type = "mod" -> tab = "adminDashboard"
    [] OTHER -> tab \in {"adminDashboard", "modDashboard"}

\* the role-gated panel a snapshot of this type may not stay on
LosesTab(type, tab) ==
  CASE type = "admin" -> tab = "modDashboard"
    [] type = "mod" -> tab = "adminDashboard"
    [] OTHER -> tab \in {"adminDashboard", "modDashboard"}

\* "Reset inventory page if items length changes significantly"
ClampInventoryPage(p, n) ==
  IF (p - 1) * itemsPerPage >= n THEN 1 ELSE p

\* one cooldown line: empty, or the seconds remaining and the admin's link
NoCooldown == [shown |-> FALSE, seconds |-> 0, bypass |-> FALSE]

\* the seconds rounded down
CooldownLineFloor(duration, now, last, type) ==
  LET remaining == duration * MsPerSecond - (now - last)
  IN IF remaining > 0
       THEN [shown |-> TRUE, seconds |-> remaining \div MsPerSecond,
             bypass |-> type = "admin"]
       ELSE NoCooldown

\* remaining > 0 ? `... ${Math.ceil(remaining)}s remaining. ...` : ''
CooldownLine(duration, now, last, type) ==
  LET remaining == duration * MsPerSecond - (now - last)
  IN IF remaining > 0
       THEN [shown |-> TRUE, seconds |-> CeilDiv(remaining, MsPerSecond),
             bypass |-> type = "admin"]
       ELSE NoCooldown

\* the assignments without the one of pets
StoreSnapshotKeepsPets(data) ==
  /\ items' = data.items
  /\ account' = data
  /\ UNCHANGED pets

\* items = data.items; account = data; pets = data.pets
StoreSnapshot(data) ==
  /\ items' = data.items
  /\ account' = data
  /\ pets' = data.pets

AccountResponse(i, data) ==
  /\ i \in 1..Len(inflight["account"])
  /\ inflight["account"][i] = Tok
  /\ Deliver("account", i)
  /\ IF data.banned
       THEN /\ mainContentShown' = FALSE
            /\ bannedPageShown' = TRUE
            /\ UNCHANGED <<account, items, pets, adminTabShown, modTabShown>>
            /\ UNCHANGED <<invFilterVars, inventoryPage, invView>>
            /\ UNCHANGED <<unreadMessages, badge, newMessagesMark, isChatFocused,
                           activeTab, lastEval>>
            /\ UNCHANGED <<cooldownDom, mineCooldownDom, renderedAt>>
       ELSE /\ adminTabShown' = (data.type = "admin")
            /\ modTabShown' = (data.type = "mod")
            /\ IF LosesTab(data.type, activeTab)
                 THEN SwitchTab("dashboard")
                 ELSE UNCHANGED <<unreadMessages, badge, newMessagesMark,
                                  isChatFocused, activeTab>>
            /\ StoreSnapshot(data)
            /\ InvEvaluated(ApplyInventoryFilters(data.items,
                   ClampInventoryPage(inventoryPage, Len(data.items)), data))
            /\ lastEval' = InvEvalEntry(ClampInventoryPage(inventoryPage,
                                                             Len(data.items)))
            /\ cooldownDom' = CooldownLine(ITEM_CREATE_COOLDOWN, clock,
                                            data.last_item_time, data.type)
            /\ mineCooldownDom' = CooldownLine(TOKEN_MINE_COOLDOWN, clock,
                                                data.last_mine_time, data.type)
            /\ renderedAt' = clock
            /\ UNCHANGED <<mainContentShown, bannedPageShown>>
  /\ UNCHANGED <<globalMessages, chatDom, invCtl, clock>>
  /\ UNCHANGED <<sessionVars, mktVars, renderedIds, newArrived, messageSound,
                 domVars, modalVars, writeVars, lastFetched>>

\* data.error: the token is removed and the page reloaded
AccountRejected(i) ==
  /\ i \in 1..Len(inflight["account"])
  /\ forcedLogouts < MaxForcedLogouts
  /\ Deliver("account", i)
  /\ storedToken' = NoToken
  /\ reloadPending' = TRUE
  /\ forcedLogouts' = forcedLogouts + 1
  /\ UNCHANGED <<token, chatVars, accountVars, invVars, mktVars, otherVars, lastEval>>

(***************************************************************************)
(* The .then callback of refreshMarket.                                    *)
(***************************************************************************)
\* the listings assigned to the inventory's variable
MarketResponseIntoItems(i, data) ==
  /\ i \in 1..Len(inflight["market"])
  /\ inflight["market"][i] = Tok
  /\ Deliver("market", i)
  /\ items' = data
  /\ LET ev == ApplyMarketFilters(data, marketPage, account)
     IN /\ MktFiltersStored(ev)
        /\ mktView' = ev.view
  /\ lastEval' = MktEvalEntry(marketPage)
  /\ UNCHANGED <<mktCtl, marketItems>>
  /\ UNCHANGED <<account, pets, adminTabShown, modTabShown, mainContentShown,
                 bannedPageShown>>
  /\ UNCHANGED <<sessionVars, chatVars, invVars, otherVars>>

\* the body is the array of listings
MarketResponse(i, data) ==
  /\ i \in 1..Len(inflight["market"])
  /\ inflight["market"][i] = Tok
  /\ Deliver("market", i)
  /\ marketItems' = data
  /\ LET ev == ApplyMarketFilters(data, marketPage, account)
     IN /\ MktFiltersStored(ev)
        /\ mktView' = ev.view
  /\ lastEval' = MktEvalEntry(marketPage)
  /\ UNCHANGED mktCtl
  /\ UNCHANGED <<sessionVars, chatVars, accountVars, invVars, otherVars>>

\* the body of an error result: an object with an error field, no array
ErrorBody == [error |-> "error"]

\* the body is an error result: it is stored, the filter variables are
\* assigned and items.filter throws before anything is rendered
MarketErrorResult(i) ==
  /\ i \in 1..Len(inflight["market"])
  /\ Deliver("market", i)
  /\ marketItems' = ErrorBody
  /\ MktFiltersStored(ApplyMarketFilters(<<>>, marketPage, account))
  /\ lastEval' = MktEvalEntry(marketPage)
  /\ UNCHANGED <<mktCtl, mktView>>
  /\ UNCHANGED <<sessionVars, chatVars, accountVars, invVars, otherVars>>

(***************************************************************************)
(* The .then callbacks of getStats, refreshBanner and refreshLeaderboard.  *)
(* data is what the body holds under stats, banner.value, leaderboard.     *)
(***************************************************************************)
StatsResponse(i, data) ==
  /\ i \in 1..Len(inflight["stats"])
  /\ Deliver("stats", i)
  /\ statsDom' = data
  /\ UNCHANGED <<bannerDom, leaderboardDom, modalVars, writeVars, renderedIds, newArrived, messageSound,
               cooldownVars, lastFetched>>
  /\ UNCHANGED <<sessionVars, chatVars, accountVars, invVars, mktVars, lastEval>>

BannerResponse(i, data) ==
  /\ i \in 1..Len(inflight["banner"])
  /\ inflight["banner"][i] = Tok
  /\ Deliver("banner", i)
  /\ bannerDom' = data
  /\ UNCHANGED <<statsDom, leaderboardDom, modalVars, writeVars, renderedIds, newArrived, messageSound,
               cooldownVars, lastFetched>>
  /\ UNCHANGED <<sessionVars, chatVars, accountVars, invVars, mktVars, lastEval>>

\* the rows, and the row highlighted as the stored account's
LeaderboardResponse(i, data) ==
  /\ i \in 1..Len(inflight["leaderboard"])
  /\ inflight["leaderboard"][i] = Tok
  /\ Deliver("leaderboard", i)
  /\ leaderboardDom' = [rows |-> data, highlight |-> account.username]
  /\ UNCHANGED <<statsDom, bannerDom, modalVars, writeVars, renderedIds, newArrived, messageSound,
               cooldownVars, lastFetched>>
  /\ UNCHANGED <<sessionVars, chatVars, accountVars, invVars, mktVars, lastEval>>

(***************************************************************************)
(* Reads that bring no data.                                               *)
(***************************************************************************)
\* the resources whose callback only tests for the field it expects
TestsForData == {"stats", "banner", "messages", "leaderboard"}

\* the body is an error result (such as a rejected token): data.stats,
\* data.banner, data.messages or data.leaderboard is absent, the callback
\* does nothing
ErrorResultIgnored(r, i) ==
  /\ r \in TestsForData
  /\ i \in 1..Len(inflight[r])
  /\ Drop(r, i)
  /\ UNCHANGED <<sessionVars, chatVars, accountVars, invVars, mktVars, otherVars,
                 lastEval>>

\* a failure that ends the session: the script's token is dropped
FetchFailedDropsToken(r, i) ==
  /\ r \in Resources
  /\ i \in 1..Len(inflight[r])
  /\ Drop(r, i)
  /\ token' = NoToken
  /\ UNCHANGED <<storedToken, reloadPending, forcedLogouts>>
  /\ UNCHANGED <<chatVars, accountVars, invVars, mktVars, otherVars, lastEval>>

\* the fetch or res.json() rejected (network failure, unparsable body): no
\* callback runs
FetchFailed(r, i) ==
  /\ r \in Resources
  /\ i \in 1..Len(inflight[r])
  /\ Drop(r, i)
  /\ UNCHANGED <<sessionVars, chatVars, accountVars, invVars, mktVars, otherVars,
                 lastEval>>

(***************************************************************************)
(* The click listener of #logout.                                          *)
(***************************************************************************)
LogoutClick ==
  /\ mainContentShown
  /\ storedToken' = NoToken
  /\ reloadPending' = TRUE
  /\ UNCHANGED <<token, forcedLogouts>>
  /\ UNCHANGED <<netVars, chatVars, accountVars, invVars, mktVars, otherVars, lastEval>>

(***************************************************************************)
(* The modal layer.  One element serves every alert and prompt; a call     *)
(* overwrites the message and the onclick of the buttons it uses.          *)
(***************************************************************************)
\* customAlert(message).then(then): logs the message, shows it, hides Cancel
CustomAlert(message, then) ==
  /\ consoleLog' = message
  /\ modal' = [modal EXCEPT !.shown = TRUE, !.message = message,
                            !.input = FALSE, !.cancelShown = FALSE,
                            !.okThen = then, !.closeThen = then]

\* customPrompt(message).then(then): shows the input and the Cancel button
CustomPrompt(message, then) ==
  /\ modal' = [shown |-> TRUE, message |-> message, input |-> TRUE,
               cancelShown |-> TRUE, okThen |-> then, cancelThen |-> then,
               closeThen |-> then]
  /\ UNCHANGED consoleLog

\* customConfirm(message): no input, both buttons; nothing is chained on the
\* promise where the caller does not call .then
CustomConfirm(message, then) ==
  /\ modal' = [shown |-> TRUE, message |-> message, input |-> FALSE,
               cancelShown |-> TRUE, okThen |-> then, cancelThen |-> then,
               closeThen |-> then]
  /\ UNCHANGED consoleLog

\* what the user may have typed in #modalInput when clicking OK
PromptInputs == {<<>>, <<"5">>}
\* resolve(null), resolve() and resolve(false)
NoValue == <<>>

\* the requests a continuation issues
ThenReads(then) ==
  CASE then.k = "refreshAccount" -> {"account"}
    [] then.k = "refreshBoth" -> {"account", "market"}
    [] OTHER -> {}

WriteRequest(op, id, tk) == [op |-> op, id |-> id, token |-> tk]

\* no prompt follows
NoPrompt == [message |-> Msg(""), then |-> NoThen]
Prompt(text, k, id) == [message |-> Msg(text), then |-> [k |-> k, id |-> id]]

\* the prompt the callback of a prompt opens when it is resolved with v:
\* the nested customPrompt calls of editTokensForUser, editItem and banUser
Opens(then, v) ==
  CASE then.k = "editTokensForUser:username" ->
         Prompt("Enter tokens:", "editTokensForUser:tokens", 0)
    [] then.k = "editItem:name" ->
         Prompt("Enter new icon (blank for no change):", "editItem:icon", then.id)
    [] then.k = "editItem:icon" ->
         Prompt("Enter new rarity (blank for no change):", "editItem:rarity", then.id)
    [] then.k = "banUser:username" /\ v # NoValue ->
         Prompt("Enter reason for banning:", "banUser:reason", 0)
    [] then.k = "banUser:reason" /\ v # NoValue ->
         Prompt("Enter length of ban", "banUser:length", 0)
    [] OTHER -> NoPrompt

\* the write the callback of a prompt sends when it is resolved with v
Sends(then, v) ==
  CASE then.k = "sellItem" /\ v # NoValue -> "sellItem"
    [] then.k = "editTokensForUser:tokens" /\ v # NoValue -> "editTokensForUser"
    [] then.k = "editItem:rarity" -> "editItem"
    [] then.k = "banUser:length" /\ v # NoValue -> "banUser"
    [] OTHER -> "none"

\* the button hides the modal, then the callback may show it again
AfterClick(then, v) ==
  IF Opens(then, v) = NoPrompt
    THEN [modal EXCEPT !.shown = FALSE]
    ELSE [shown |-> TRUE, message |-> Opens(then, v).message, input |-> TRUE,
          cancelShown |-> TRUE, okThen |-> Opens(then, v).then,
          cancelThen |-> Opens(then, v).then, closeThen |-> Opens(then, v).then]

\* the .then callback of the promise a button resolves with value v
Resume(then, v) ==
  /\ CanIssue(ThenReads(then))
  /\ inflight' = Issue(inflight, ThenReads(then))
  /\ UNCHANGED older
  /\ modal' = AfterClick(then, v)
  /\ IF Sends(then, v) # "none"
       THEN /\ Len(writes) < MaxWrites
            /\ writes' = Append(writes, WriteRequest(Sends(then, v), then.id, token))
       ELSE UNCHANGED writes

\* the onclick of #modalOk; the overlay covers the page while it is shown
ModalOk(v) ==
  /\ modal.shown
  /\ v \in (IF modal.input THEN PromptInputs ELSE {NoValue})
  /\ Resume(modal.okThen, v)
  /\ UNCHANGED <<consoleLog, lastWrite, domVars, renderedIds, newArrived, messageSound,
               cooldownVars, lastFetched>>
  /\ UNCHANGED <<sessionVars, chatVars, accountVars, invVars, mktVars, lastEval>>

ModalCancel ==
  /\ modal.shown
  /\ modal.cancelShown
  /\ Resume(modal.cancelThen, NoValue)
  /\ UNCHANGED <<consoleLog, lastWrite, domVars, renderedIds, newArrived, messageSound,
               cooldownVars, lastFetched>>
  /\ UNCHANGED <<sessionVars, chatVars, accountVars, invVars, mktVars, lastEval>>

ModalClose ==
  /\ modal.shown
  /\ Resume(modal.closeThen, NoValue)
  /\ UNCHANGED <<consoleLog, lastWrite, domVars, renderedIds, newArrived, messageSound,
               cooldownVars, lastFetched>>
  /\ UNCHANGED <<sessionVars, chatVars, accountVars, invVars, mktVars, lastEval>>

(***************************************************************************)
(* The user-initiated operations on items: what the click does.            *)
(***************************************************************************)
\* a button of the page can be clicked: the page is shown and not covered
Clickable == mainContentShown /\ ~modal.shown

\* the fetch of a write is issued; nothing else changes until its response
SendWrite(op, id, tk) ==
  /\ Len(writes) < MaxWrites
  /\ writes' = Append(writes, WriteRequest(op, id, tk))
  /\ UNCHANGED <<lastWrite, modalVars, domVars, renderedIds, newArrived, messageSound,
               cooldownVars, lastFetched>>
  /\ UNCHANGED <<sessionVars, netVars, chatVars, accountVars, invVars, mktVars,
                 lastEval>>

createItem == Clickable /\ SendWrite("createItem", 0, storedToken)

mineTokens == Clickable /\ SendWrite("mineTokens", 0, token)

\* the Buy button of a rendered market card
buyItem(itemId) ==
  /\ Clickable
  /\ mktView.rendered
  /\ itemId \in mktView.controls
  /\ SendWrite("buyItem", itemId, storedToken)

\* the sale button of a rendered inventory card of an item that is for sale
cancelSale(itemId) ==
  /\ Clickable
  /\ invView.rendered
  /\ itemId \in Range(invView.paged)
  /\ ItemOf(itemId).for_sale
  /\ SendWrite("cancelSale", itemId, token)

\* the sale button of a rendered inventory card of an item that is not
sellItem(itemId) ==
  /\ Clickable
  /\ invView.rendered
  /\ itemId \in Range(invView.paged)
  /\ ~ItemOf(itemId).for_sale
  /\ CustomPrompt(Msg("Enter sale price (tokens):"),
                  [k |-> "sellItem", id |-> itemId])
  /\ UNCHANGED <<writeVars, domVars, renderedIds, newArrived, messageSound,
               cooldownVars, lastFetched>>
  /\ UNCHANGED <<sessionVars, netVars, chatVars, accountVars, invVars, mktVars,
                 lastEval>>

\* the Secret button of a rendered inventory card
viewSecret(itemId) ==
  /\ Clickable
  /\ invView.rendered
  /\ itemId \in Range(invView.paged)
  /\ itemId \in Range(items)
  /\ CustomAlert([text |-> "Secret (do not share - it will let people take your item): ",
                  secrets |-> {ItemOf(itemId).item_secret}], NoThen)
  /\ UNCHANGED <<writeVars, domVars, renderedIds, newArrived, messageSound,
               cooldownVars, lastFetched>>
  /\ UNCHANGED <<sessionVars, netVars, chatVars, accountVars, invVars, mktVars,
                 lastEval>>

\* the Delete button of a rendered inventory card: the test is made on the
\* promise customConfirm returns, an object, so the fetch follows at once
deleteItem(itemId) ==
  /\ Clickable
  /\ invView.rendered
  /\ itemId \in Range(invView.paged)
  /\ "delete" \in invView.controls
  /\ CustomConfirm(Msg("Are you sure you want to delete this item?"), NoThen)
  /\ Len(writes) < MaxWrites
  /\ writes' = Append(writes, WriteRequest("deleteItem", itemId, token))
  /\ UNCHANGED <<lastWrite, domVars, renderedIds, newArrived, messageSound,
               cooldownVars, lastFetched>>
  /\ UNCHANGED <<sessionVars, netVars, chatVars, accountVars, invVars, mktVars,
                 lastEval>>

\* a click that only opens the first prompt of an operation
OpenPrompt(text, k, id) ==
  /\ CustomPrompt(Msg(text), [k |-> k, id |-> id])
  /\ UNCHANGED <<writeVars, domVars, renderedIds, newArrived, messageSound,
               cooldownVars, lastFetched>>
  /\ UNCHANGED <<sessionVars, netVars, chatVars, accountVars, invVars, mktVars,
                 lastEval>>

\* the Edit button of a rendered inventory card
editItem(itemId) ==
  /\ Clickable
  /\ invView.rendered
  /\ itemId \in Range(invView.paged)
  /\ "edit" \in invView.controls
  /\ OpenPrompt("Enter new name (blank for no change):", "editItem:name", itemId)

\* the click listener of #editTokensForUserAdmin
editTokensForUser ==
  /\ Clickable
  /\ activeTab = "adminDashboard"
  /\ OpenPrompt("Enter username:", "editTokensForUser:username", 0)

\* the click listener of #banUserAdmin
banUser ==
  /\ Clickable
  /\ activeTab = "adminDashboard"
  /\ OpenPrompt("Enter username to ban:", "banUser:username", 0)

(***************************************************************************)
(* The .then callbacks of the writes.  outcome "success": the body the     *)
(* service sends for a write it performed; "error": the body of an error   *)
(* result ({error: ...}, no success field).                                *)
(***************************************************************************)
Alert(text, k) == [alert |-> TRUE, message |-> Msg(text), then |-> [k |-> k, id |-> 0]]
NoAlert == [alert |-> FALSE, message |-> Msg(""), then |-> NoThen]

\* the alert of an error followed by a refresh as well
WriteHandlerRefreshesAlways(op, outcome) ==
  CASE op = "createItem" ->
         IF outcome = "error" THEN Alert("Error creating item: ", "refreshAccount")
         ELSE Alert("Created item: ", "refreshAccount")
    [] op = "buyItem" ->
         IF outcome = "success" THEN Alert("Item purchased!", "refreshBoth")
         ELSE NoAlert
    [] op = "mineTokens" ->
         IF outcome = "error" THEN Alert("Error mining tokens: ", "refreshAccount")
         ELSE Alert("Mined tokens!", "refreshAccount")
    [] op = "sellItem" ->
         IF outcome = "success" THEN Alert("Item listed for sale!", "refreshBoth")
         ELSE Alert("Error listing item.", "refreshBoth")
    [] op = "cancelSale" ->
         IF outcome = "success" THEN Alert("Sale cancelled!", "refreshBoth")
         ELSE Alert("Error cancelling sale.", "refreshBoth")
    [] op = "deleteItem" ->
         IF outcome = "success" THEN Alert("Item deleted!", "refreshAccount")
         ELSE Alert("Error deleting item.", "refreshAccount")
    [] op = "editItem" ->
         IF outcome = "success" THEN Alert("Item edited!", "refreshAccount")
         ELSE Alert("Error editing item.", "refreshAccount")
    [] op = "editTokensForUser" ->
         IF outcome = "success" THEN Alert("Tokens edited!", "refreshAccount")
         ELSE Alert("Error editing tokens.", "refreshAccount")
    [] op = "banUser" ->
         IF outcome = "success" THEN Alert("User banned!", "refreshAccount")
         ELSE Alert("Error banning user.", "refreshAccount")

WriteHandler(op, outcome) ==
  CASE op = "createItem" ->
         IF outcome = "error" THEN Alert("Error creating item: ", "none")
         ELSE Alert("Created item: ", "refreshAccount")
    [] op = "buyItem" ->
         IF outcome = "success" THEN Alert("Item purchased!", "refreshBoth")
         ELSE NoAlert
    [] op = "mineTokens" ->
         IF outcome = "error" THEN Alert("Error mining tokens: ", "none")
         ELSE Alert("Mined tokens!", "refreshAccount")
    [] op = "sellItem" ->
         IF outcome = "success" THEN Alert("Item listed for sale!", "refreshBoth")
         ELSE Alert("Error listing item.", "none")
    [] op = "cancelSale" ->
         IF outcome = "success" THEN Alert("Sale cancelled!", "refreshBoth")
         ELSE Alert("Error cancelling sale.", "none")
    [] op = "deleteItem" ->
         IF outcome = "success" THEN Alert("Item deleted!", "refreshAccount")
         ELSE Alert("Error deleting item.", "none")
    [] op = "editItem" ->
         IF outcome = "success" THEN Alert("Item edited!", "refreshAccount")
         ELSE Alert("Error editing item.", "none")
    [] op = "editTokensForUser" ->
         IF outcome = "success" THEN Alert("Tokens edited!", "refreshAccount")
         ELSE Alert("Error editing tokens.", "none")
    [] op = "banUser" ->
         IF outcome = "success" THEN Alert("User banned!", "refreshAccount")
         ELSE Alert("Error banning user.", "none")

WriteOutcomes == {"success", "error"}

\* the created item added to the stored inventory by the callback itself
WriteResponseAddsItem(i, outcome) ==
  /\ i \in 1..Len(writes)
  /\ outcome \in WriteOutcomes
  /\ outcome = "success" => writes[i].token = Tok
  /\ writes' = RemoveAt(writes, i)
  /\ LET h == WriteHandler(writes[i].op, outcome)
     IN /\ IF h.alert THEN CustomAlert(h.message, h.then)
                      ELSE UNCHANGED modalVars
        /\ lastWrite' = [op |-> writes[i].op, outcome |-> outcome,
                         alerted |-> h.alert]
  /\ items' = IF writes[i].op = "createItem" /\ outcome = "success"
                THEN Append(items, Len(items) + 1) ELSE items
  /\ UNCHANGED <<account, pets, adminTabShown, modTabShown, mainContentShown,
                 bannedPageShown>>
  /\ UNCHANGED <<domVars, renderedIds, newArrived, messageSound,
               cooldownVars, lastFetched>>
  /\ UNCHANGED <<sessionVars, netVars, chatVars, invVars, mktVars,
                 lastEval>>

WriteResponse(i, outcome) ==
  /\ i \in 1..Len(writes)
  /\ outcome \in WriteOutcomes
  /\ outcome = "success" => writes[i].token = Tok
  /\ writes' = RemoveAt(writes, i)
  /\ LET h == WriteHandler(writes[i].op, outcome)
     IN /\ IF h.alert THEN CustomAlert(h.message, h.then)
                      ELSE UNCHANGED modalVars
        /\ lastWrite' = [op |-> writes[i].op, outcome |-> outcome,
                         alerted |-> h.alert]
  /\ UNCHANGED <<domVars, renderedIds, newArrived, messageSound,
               cooldownVars, lastFetched>>
  /\ UNCHANGED <<sessionVars, netVars, chatVars, accountVars, invVars, mktVars,
                 lastEval>>

\* the fetch or res.json() of a write rejected: no callback runs
WriteFetchFailed(i) ==
  /\ i \in 1..Len(writes)
  /\ writes' = RemoveAt(writes, i)
  /\ lastWrite' = [op |-> writes[i].op, outcome |-> "failed", alerted |-> FALSE]
  /\ UNCHANGED <<modalVars, domVars, renderedIds, newArrived, messageSound,
               cooldownVars, lastFetched>>
  /\ UNCHANGED <<sessionVars, netVars, chatVars, accountVars, invVars, mktVars,
                 lastEval>>

(***************************************************************************)
(* The setInterval callback.  R is the set of resources whose requests     *)
(* the specification follows; the callback calls the refresh function of   *)
(* all six.                                                                *)
(***************************************************************************)
\* Tick without the call of getStats
TickSkipsStats(R) ==
  /\ token # NoToken
  /\ CanIssue(R)
  /\ inflight' = Issue(inflight, R \ {"stats"})
  /\ UNCHANGED older
  /\ UNCHANGED <<sessionVars, chatVars, accountVars, invVars, mktVars, otherVars, lastEval>>

\* Tick without the test of the token
TickUnguarded(R) ==
  /\ CanIssue(R)
  /\ inflight' = Issue(inflight, R)
  /\ UNCHANGED older
  /\ UNCHANGED <<sessionVars, chatVars, accountVars, invVars, mktVars, otherVars, lastEval>>

Tick(R) ==
  /\ token # NoToken
  /\ CanIssue(R)
  /\ inflight' = Issue(inflight, R)
  /\ UNCHANGED older
  /\ UNCHANGED <<sessionVars, chatVars, accountVars, invVars, mktVars, otherVars, lastEval>>

(***************************************************************************)
(* The state the script leaves when the document has loaded: the           *)
(* declarations of lines 1-30 and the initial data refresh.                *)
(***************************************************************************)
\* the clock when the page is first loaded, in milliseconds
ClockStart == 1000000

LoadRequests(stored, R) ==
  [r \in Resources |->
     IF r \in R /\ (r = "stats" \/ (r = "account" /\ stored # NoToken))
       THEN <<stored>> ELSE <<>>]

PageState(stored, R) ==
  [storedToken |-> stored, token |-> stored, reloadPending |-> FALSE,
   forcedLogouts |-> 0, inflight |-> LoadRequests(stored, R),
   older |-> [r \in Resources |-> NotFollowed],
   globalMessages |-> <<>>, chatDom |-> <<>>, unreadMessages |-> 0,
   isChatFocused |-> TRUE, activeTab |-> "dashboard", badge |-> BadgeOf(0),
   newMessagesMark |-> FALSE, account |-> EmptyAccount, items |-> <<>>,
   pets |-> <<>>, adminTabShown |-> FALSE, modTabShown |-> FALSE,
   mainContentShown |-> (stored # NoToken), bannedPageShown |-> FALSE,
   invCtl |-> InitialInvCtl, inventorySearchQuery |-> <<>>,
   inventoryRarityFilter |-> "", inventorySaleFilter |-> "all",
   inventoryPage |-> 1, invView |-> NoView, marketItems |-> <<>>,
   mktCtl |-> InitialMktCtl, marketSearchQuery |-> <<>>, marketRarityFilter |-> "",
   marketPriceMin |-> <<>>, marketPriceMax |-> <<>>, marketSellerFilter |-> <<>>,
   marketPage |-> 1, mktView |-> NoView, renderedIds |-> {}, newArrived |-> 0,
   statsDom |-> NotRendered, bannerDom |-> NotRendered,
   leaderboardDom |-> NotRendered, modal |-> HiddenModal,
   consoleLog |-> NoLine, writes |-> <<>>, messageSound |-> "idle",
   lastWrite |-> NoWrite, clock |-> ClockStart, cooldownDom |-> NoCooldown,
   mineCooldownDom |-> NoCooldown, renderedAt |-> 0, lastFetched |-> NoneFetched,
   lastEval |-> NoEval]

StateIs(ps) ==
     /\ storedToken = ps.storedToken
     /\ token = ps.token
     /\ reloadPending = ps.reloadPending
     /\ forcedLogouts = ps.forcedLogouts
     /\ inflight = ps.inflight
     /\ older = ps.older
     /\ globalMessages = ps.globalMessages
     /\ chatDom = ps.chatDom
     /\ unreadMessages = ps.unreadMessages
     /\ isChatFocused = ps.isChatFocused
     /\ activeTab = ps.activeTab
     /\ badge = ps.badge
     /\ newMessagesMark = ps.newMessagesMark
     /\ account = ps.account
     /\ items = ps.items
     /\ pets = ps.pets
     /\ adminTabShown = ps.adminTabShown
     /\ modTabShown = ps.modTabShown
     /\ mainContentShown = ps.mainContentShown
     /\ bannedPageShown = ps.bannedPageShown
     /\ invCtl = ps.invCtl
     /\ inventorySearchQuery = ps.inventorySearchQuery
     /\ inventoryRarityFilter = ps.inventoryRarityFilter
     /\ inventorySaleFilter = ps.inventorySaleFilter
     /\ inventoryPage = ps.inventoryPage
     /\ invView = ps.invView
     /\ marketItems = ps.marketItems
     /\ mktCtl = ps.mktCtl
     /\ marketSearchQuery = ps.marketSearchQuery
     /\ marketRarityFilter = ps.marketRarityFilter
     /\ marketPriceMin = ps.marketPriceMin
     /\ marketPriceMax = ps.marketPriceMax
     /\ marketSellerFilter = ps.marketSellerFilter
     /\ marketPage = ps.marketPage
     /\ mktView = ps.mktView
     /\ renderedIds = ps.renderedIds
     /\ newArrived = ps.newArrived
     /\ lastEval = ps.lastEval
     /\ statsDom = ps.statsDom
     /\ bannerDom = ps.bannerDom
     /\ leaderboardDom = ps.leaderboardDom
     /\ modal = ps.modal
     /\ consoleLog = ps.consoleLog
     /\ messageSound = ps.messageSound
     /\ writes = ps.writes
     /\ lastWrite = ps.lastWrite
     /\ clock = ps.clock
     /\ cooldownDom = ps.cooldownDom
     /\ mineCooldownDom = ps.mineCooldownDom
     /\ renderedAt = ps.renderedAt
     /\ lastFetched = ps.lastFetched

Loaded(stored, R) == StateIs(PageState(stored, R))

(***************************************************************************)
(* location.reload() starts a navigation; the document, its timers and     *)
(* its pending callbacks stay live until the new document replaces it.     *)
(* ReloadCommit is that replacement: the requests of the old document are  *)
(* dropped and the script runs again on what localStorage holds.           *)
(***************************************************************************)
ReloadCommit(R) ==
  /\ reloadPending
  /\ LET ps == PageState(storedToken, R)
     IN /\ storedToken' = ps.storedToken
        /\ token' = ps.token
        /\ reloadPending' = ps.reloadPending
        /\ forcedLogouts' = ps.forcedLogouts
        /\ inflight' = ps.inflight
        /\ older' = [r \in Resources |->
                       IF older[r] = NotFollowed THEN NotFollowed ELSE 0]
        /\ globalMessages' = ps.globalMessages
        /\ chatDom' = ps.chatDom
        /\ unreadMessages' = ps.unreadMessages
        /\ isChatFocused' = ps.isChatFocused
        /\ activeTab' = ps.activeTab
        /\ badge' = ps.badge
        /\ newMessagesMark' = ps.newMessagesMark
        /\ account' = ps.account
        /\ items' = ps.items
        /\ pets' = ps.pets
        /\ adminTabShown' = ps.adminTabShown
        /\ modTabShown' = ps.modTabShown
        /\ mainContentShown' = ps.mainContentShown
        /\ bannedPageShown' = ps.bannedPageShown
        /\ invCtl' = ps.invCtl
        /\ inventorySearchQuery' = ps.inventorySearchQuery
        /\ inventoryRarityFilter' = ps.inventoryRarityFilter
        /\ inventorySaleFilter' = ps.inventorySaleFilter
        /\ inventoryPage' = ps.inventoryPage
        /\ invView' = ps.invView
        /\ marketItems' = ps.marketItems
        /\ mktCtl' = ps.mktCtl
        /\ marketSearchQuery' = ps.marketSearchQuery
        /\ marketRarityFilter' = ps.marketRarityFilter
        /\ marketPriceMin' = ps.marketPriceMin
        /\ marketPriceMax' = ps.marketPriceMax
        /\ marketSellerFilter' = ps.marketSellerFilter
        /\ marketPage' = ps.marketPage
        /\ mktView' = ps.mktView
        /\ renderedIds' = ps.renderedIds
        /\ newArrived' = ps.newArrived
        /\ lastEval' = ps.lastEval
        /\ statsDom' = ps.statsDom
        /\ bannerDom' = ps.bannerDom
        /\ leaderboardDom' = ps.leaderboardDom
        /\ modal' = ps.modal
        /\ writes' = ps.writes
        /\ lastWrite' = ps.lastWrite
        /\ messageSound' = ps.messageSound
        /\ cooldownDom' = ps.cooldownDom
        /\ mineCooldownDom' = ps.mineCooldownDom
        /\ renderedAt' = ps.renderedAt
        /\ lastFetched' = ps.lastFetched
        \* the console keeps what was written to it; the clock goes on
        /\ UNCHANGED <<consoleLog, clock>>

(***************************************************************************)
(* Chat: the tracker and the chat reconciliation, for a user whose token   *)
(* is stored.                                                              *)
(***************************************************************************)
ChatResources == {"messages"}

InitChat == Loaded(Tok, ChatResources)

TickChat == Tick(ChatResources)

NextChat ==
  \/ TickChat
  \/ \E t \in Tabs : SwitchTabClick(t)
  \/ \E i \in 1..MaxInFlight, fetched \in ChatLists : MessagesResponse(i, fetched)
  \/ \E i \in 1..MaxInFlight : ErrorResultIgnored("messages", i)
  \/ \E i \in 1..MaxInFlight : FetchFailed("messages", i)
  \/ SoundEnded

SpecChat == InitChat /\ [][NextChat]_vars

\* C12: a step that makes the chat view the active one leaves the unread
\* count 0, the badge hidden, the new-messages marker cleared and the tracker
\* focused; and the tracker becomes focused only in such a step.
C12_ChatActivationResets ==
  [][/\ (activeTab # "chat" /\ activeTab' = "chat")
          => (unreadMessages' = 0 /\ ~badge'.shown /\ ~newMessagesMark'
              /\ isChatFocused')
     /\ (~isChatFocused /\ isChatFocused')
          => (activeTab # "chat" /\ activeTab' = "chat")]_vars

\* the chat view activated while the sound of an arrival is still playing:
\* the count that arrival had raised is 0 again
C12_Witness ==
  /\ activeTab = "chat"
  /\ isChatFocused
  /\ messageSound = "playing"
  /\ chatDom # <<>>
  /\ unreadMessages = 0
  /\ ~badge.shown
  /\ ~newMessagesMark

\* C13: a messages response rendered while the chat view is active leaves
\* the unread count, the badge and the marker as they were and starts no
\* sound.
C13_FocusedArrivalIsQuiet ==
  [][(activeTab = "chat" /\ chatDom' # chatDom)
       => (/\ unreadMessages' = unreadMessages
           /\ badge' = badge
           /\ newMessagesMark' = newMessagesMark
           /\ messageSound' = messageSound)]_vars

\* all three messages rendered with the chat view active and nothing raised
C13_Witness ==
  /\ activeTab = "chat"
  /\ Len(chatDom) = MaxMsgId
  /\ messageSound = "idle"
  /\ unreadMessages = 0
  /\ ~newMessagesMark
  /\ newArrived = 0

\* C31: a step that changes the unread count leaves the badge with the new
\* count as its text, shown when the count is greater than 0 and hidden
\* when it is 0.
C31_BadgeFollowsTheCount ==
  [][unreadMessages' # unreadMessages =>
       /\ badge'.text = unreadMessages'
       /\ badge'.shown = (unreadMessages' > 0)]_vars

\* the badge hidden again by the click on the chat tab after it had shown
\* a count (the sound of a counted message is still playing)
C31_Witness ==
  /\ unreadMessages = 0
  /\ badge = [text |-> 0, shown |-> FALSE]
  /\ activeTab = "chat"
  /\ messageSound = "playing"
  /\ globalMessages = <<1, 2>>

\* the ids of the rendered messages, in the order of the elements
DomIds(dom) == [k \in 1..Len(dom) |-> dom[k].id]

\* C26: a chat response whose list is as long as the stored one changes
\* nothing (no re-render, no count, no sound, the stored list kept) even
\* when its content differs; one of another length is rendered and
\* replaces the stored list.
C26_OnlyTheCountIsCompared ==
  [][(Handled("messages") /\ lastFetched' # NoneFetched)
       => IF Len(lastFetched') = Len(globalMessages)
            THEN UNCHANGED <<globalMessages, chatDom, unreadMessages, badge,
                             newMessagesMark, messageSound>>
            ELSE /\ globalMessages' = lastFetched'
                 /\ DomIds(chatDom') = lastFetched']_vars

\* message 1 is stored and shown; the response handled last held message
\* 2 in its place
C26_Witness ==
  /\ globalMessages = <<1>>
  /\ lastFetched = <<2>>
  /\ DomIds(chatDom) = <<1>>
  /\ unreadMessages = 1
  /\ inflight["messages"] = <<>>

\* C1: while the chat view is not active, the unread count equals the number
\* of messages that arrived (were rendered for the first time) since the
\* chat view was last active: no message rendered in an earlier tick is
\* counted again.
C1_UnreadEqualsArrived ==
  activeTab # "chat" => unreadMessages = newArrived

(***************************************************************************)
(* Inventory: the account reconciliation with the inventory filters and    *)
(* pagination, for a user whose token is stored.                           *)
(***************************************************************************)
InvResources == {"account"}
InvAccountData ==
  {AccountData("user", <<"A", "d", "a">>, its, <<>>) : its \in Collections}

InitInv == Loaded(Tok, InvResources)

TickInv == Tick(InvResources)

NextInv ==
  \/ TickInv
  \/ \E i \in 1..MaxInFlight, data \in InvAccountData : AccountResponse(i, data)
  \/ \E i \in 1..MaxInFlight : FetchFailed("account", i)
  \/ \E c \in InvCtls : SetInventoryControl(c)
  \/ InventoryPrev
  \/ InventoryNext

SpecInv == InitInv /\ [][NextInv]_vars

(***************************************************************************)
(* Market: the market reconciliation with the market filters and           *)
(* pagination.                                                             *)
(***************************************************************************)
MktResources == {"market"}
\* the control settings followed here: at most one control is not blank
MktCtlsFollowed ==
  {c \in MktCtls :
     Cardinality({f \in DOMAIN c : c[f] # InitialMktCtl[f]}) <= 1}

InitMkt == Loaded(Tok, MktResources)

TickMkt == Tick(MktResources)

NextMkt ==
  \/ TickMkt
  \/ \E i \in 1..MaxInFlight, data \in Collections : MarketResponse(i, data)
  \/ \E i \in 1..MaxInFlight : MarketErrorResult(i)
  \/ \E i \in 1..MaxInFlight : FetchFailed("market", i)
  \/ \E c \in MktCtlsFollowed : SetMarketControl(c)
  \/ MarketPrev
  \/ MarketNext

SpecMkt == InitMkt /\ [][NextMkt]_vars

\* C19: an evaluation that stores a rarity no item of the inventory has
\* leaves the inventory on page 1 with no entry shown, a page count of 0
\* and both pagination buttons disabled, whatever page it was entered on.
C19_EmptyResultConvention ==
  [][(/\ inventoryRarityFilter' # inventoryRarityFilter
      /\ inventoryRarityFilter' # ""
      /\ \A n \in Range(items') : ItemOf(n).level # inventoryRarityFilter')
       => (/\ inventoryPage' = 1
           /\ invView'.rendered
           /\ invView'.paged = <<>>
           /\ invView'.page = 1
           /\ invView'.totalPages = 0
           /\ invView'.prevDisabled
           /\ invView'.nextDisabled)]_vars

\* twelve items, the evaluation entered on page 3, nothing left to show
C19_Witness ==
  /\ lastEval.list = "inventory" /\ lastEval.changed /\ lastEval.pageIn = 3
  /\ Len(items) = 12
  /\ inventoryRarityFilter = "epic"
  /\ inventoryPage = 1
  /\ invView.paged = <<>>
  /\ invView.totalPages = 0
  /\ invView.prevDisabled /\ invView.nextDisabled

\* C2: the page a list was last sliced at is never greater than
\* max(1, totalPages), totalPages being computed on the filtered set.
C2_PageWithinTotalPages ==
  /\ invView.rendered => invView.page <= Max(1, invView.totalPages)
  /\ mktView.rendered => mktView.page <= Max(1, mktView.totalPages)

\* C28: the page an evaluation of the inventory filters slices at is the
\* page it was entered with, first reset to 1 when a filter changed, then
\* set to 1 when it lies beyond the pages of the set filtered in this
\* evaluation.
C28_ResetThenClampThenSlice ==
  [][(Handled("account") /\ lastEval'.list = "inventory")
       => LET reset == IF lastEval'.changed THEN 1 ELSE inventoryPage
              clamped == IF reset > Max(1, invView'.totalPages) THEN 1 ELSE reset
          IN /\ invView'.page = clamped
             /\ inventoryPage' = clamped]_vars

(***************************************************************************)
(* The filter evaluations as functions: applyInventoryFilters(items) and   *)
(* applyMarketFilters(marketItems) evaluated from any collection, stored   *)
(* filter, control values and page, and evaluated again on what the first  *)
(* evaluation left.                                                        *)
(***************************************************************************)
\* the pages a list can be on: the next button goes no further than the
\* last page of the list it was rendered from
LastPageOf(shown) == Max(1, CeilDiv(Len(shown), itemsPerPage))
StoredSearches == {ToLowerCase(t) : t \in SearchTexts}
StoredSellers == {ToLowerCase(t) : t \in SellerTexts}
Ada == <<"A", "d", "a">>

InitFiltersInv ==
  \E its \in Collections, c \in InvCtls, q \in StoredSearches, r \in Rarities,
     sl \in SaleFilters, p \in 1..MaxPage :
    \* refreshAccount enters the evaluation with the page it has clamped
    /\ ClampInventoryPage(p, Len(its)) = p
    /\ p <= LastPageOf(SelectSeq(ItemsUpTo(MaxItems),
                                 LAMBDA n : InvMatches(n, q, r, sl)))
    /\ LET acct == AccountData("user", Ada, its, <<>>)
           shown == SelectSeq(its, LAMBDA n : InvMatches(n, q, r, sl))
       IN StateIs([PageState(Tok, {}) EXCEPT
                     !.account = acct, !.items = its, !.invCtl = c,
                     !.inventorySearchQuery = q, !.inventoryRarityFilter = r,
                     !.inventorySaleFilter = sl, !.inventoryPage = p,
                     !.invView = RenderInventory(shown, p, acct)])

InitFiltersMkt ==
  \E its \in Collections, c \in MktCtls, q \in StoredSearches,
     r \in Rarities, lo \in {<<>>, <<"3">>}, hi \in {<<>>, <<"6">>},
     sel \in StoredSellers, p \in 1..MaxPage :
    /\ p <= LastPageOf(SelectSeq(ItemsUpTo(MaxItems),
                                 LAMBDA n : MktMatches(n, q, r, lo, hi, sel)))
    /\ LET shown == SelectSeq(its, LAMBDA n : MktMatches(n, q, r, lo, hi, sel))
       IN StateIs([PageState(Tok, {}) EXCEPT
                     !.marketItems = its, !.mktCtl = c, !.marketSearchQuery = q,
                     !.marketRarityFilter = r, !.marketPriceMin = lo,
                     !.marketPriceMax = hi, !.marketSellerFilter = sel,
                     !.marketPage = p,
                     !.mktView = RenderMarketplace(shown, p, EmptyAccount)])

InitFilters == InitFiltersInv \/ InitFiltersMkt

\* applyInventoryFilters(items)
EvalInventoryFilters ==
  /\ lastEval.list \in {"none", "inventory"}
  /\ InvEvaluated(ApplyInventoryFilters(items, inventoryPage, account))
  /\ lastEval' = InvEvalEntry(inventoryPage)
  /\ UNCHANGED invCtl
  /\ UNCHANGED <<sessionVars, netVars, chatVars, accountVars, mktVars, otherVars>>

\* applyMarketFilters(marketItems)
EvalMarketFilters ==
  /\ lastEval.list \in {"none", "market"}
  /\ LET ev == ApplyMarketFilters(marketItems, marketPage, account)
     IN /\ MktFiltersStored(ev)
        /\ mktView' = ev.view
  /\ lastEval' = MktEvalEntry(marketPage)
  /\ UNCHANGED <<marketItems, mktCtl>>
  /\ UNCHANGED <<sessionVars, netVars, chatVars, accountVars, invVars, otherVars>>

NextFilters == EvalInventoryFilters \/ EvalMarketFilters

SpecFilters == InitFilters /\ [][NextFilters]_vars

\* text occurs in name, letters compared without regard to case
ContainsIgnoringCase(name, text) ==
  \E k \in 0..(Len(name) - Len(text)) :
    \A j \in 1..Len(text) : LowerChar(name[k + j]) = LowerChar(text[j])

\* the display name as composed, in the case the service sent
DisplayName(n) ==
  LET nm == ItemOf(n).name
  IN nm.adjective \o <<" ">> \o nm.material \o <<" ">> \o nm.noun \o <<" ">>
       \o nm.suffix \o <<" ", "#">> \o nm.number

\* entry n satisfies every active predicate of the inventory controls c
InvWanted(n, c) ==
  /\ ContainsIgnoringCase(DisplayName(n), c.search)
  /\ (c.rarity # "" => ItemOf(n).level = c.rarity)
  /\ (c.sale = "forsale" => ItemOf(n).for_sale)
  /\ (c.sale = "notforsale" => ~ItemOf(n).for_sale)

\* entry n satisfies every active predicate of the market controls c
MktWanted(n, c) ==
  /\ ContainsIgnoringCase(DisplayName(n), c.search)
  /\ (c.rarity # "" => ItemOf(n).level = c.rarity)
  /\ (c.priceMin # <<>> => NumberOf(c.priceMin) <= ItemOf(n).price)
  /\ (c.priceMax # <<>> => ItemOf(n).price <= NumberOf(c.priceMax))
  /\ (c.seller # <<>> => ContainsIgnoringCase(ItemOf(n).owner, c.seller))

PositionIn(full, x) == CHOOSE i \in 1..Len(full) : full[i] = x

\* list holds exactly the wanted entries of full, in the order of full
IsOrderedSelection(list, full, wanted) ==
  /\ Range(list) = wanted
  /\ \A a, b \in 1..Len(list) :
       a < b => PositionIn(full, list[a]) < PositionIn(full, list[b])

\* C17: the list an evaluation renders from is exactly the entries of the
\* collection that satisfy all active predicates of the controls, in the
\* collection's order.
C17_FilteredSetIsConjunction ==
  /\ lastEval.list = "inventory" =>
       IsOrderedSelection(invView.list, items,
                          {n \in Range(items) : InvWanted(n, invCtl)})
  /\ lastEval.list = "market" =>
       IsOrderedSelection(mktView.list, marketItems,
                          {n \in Range(marketItems) : MktWanted(n, mktCtl)})

\* every market predicate active on 12 listings: "RE" in the name, price
\* in [3, 6], seller "Bo"; entry 3, on the lower bound, is the one kept
C17_Witness ==
  /\ lastEval.list = "market"
  /\ marketItems = ItemsUpTo(MaxItems)
  /\ mktCtl = [search |-> <<"R", "E">>, rarity |-> "", priceMin |-> <<"3">>,
               priceMax |-> <<"6">>, seller |-> <<"B", "o">>]
  /\ mktView.list = <<3>>

\* C20: an evaluation of applyInventoryFilters / applyMarketFilters that
\* directly follows an evaluation of the same list, with the same collection
\* and the same control values, leaves the rendered list, the page and the
\* stored filter as the first evaluation left them.
C20_SecondEvaluationChangesNothing ==
  [][/\ (/\ lastEval'.list = "inventory" /\ lastEval'.again
         /\ lastEval'.ctl = lastEval.ctl /\ items' = items)
          => (/\ invView' = invView
              /\ inventoryPage' = inventoryPage
              /\ <<inventorySearchQuery, inventoryRarityFilter, inventorySaleFilter>>'
                   = <<inventorySearchQuery, inventoryRarityFilter, inventorySaleFilter>>)
     /\ (/\ lastEval'.list = "market" /\ lastEval'.again
         /\ lastEval'.ctl = lastEval.ctl /\ marketItems' = marketItems)
          => (/\ mktView' = mktView
              /\ marketPage' = marketPage
              /\ <<marketSearchQuery, marketRarityFilter, marketPriceMin,
                    marketPriceMax, marketSellerFilter>>'
                   = <<marketSearchQuery, marketRarityFilter, marketPriceMin,
                       marketPriceMax, marketSellerFilter>>)]_vars

\* twelve items evaluated twice with the rarity control on "rare", which
\* the first evaluation found changed: six entries, page 1 of 2
C20_Witness ==
  /\ lastEval.list = "inventory" /\ lastEval.again
  /\ ~lastEval.changed /\ lastEval.pageIn = 1
  /\ Len(items) = 12
  /\ invCtl = [search |-> <<>>, rarity |-> "rare", sale |-> "all"]
  /\ inventoryRarityFilter = "rare"
  /\ invView.list = <<2, 4, 6, 8, 10, 12>>
  /\ invView.page = 1 /\ invView.totalPages = 2

\* C3: an evaluation of applyInventoryFilters / applyMarketFilters that finds a
\* filter field different from the stored one leaves the list's page at 1;
\* an evaluation that finds none different leaves the page it was entered with.
C3_PageResetIffFilterChanged ==
  /\ lastEval.list = "inventory" =>
       inventoryPage = IF lastEval.changed THEN 1 ELSE lastEval.pageIn
  /\ lastEval.list = "market" =>
       marketPage = IF lastEval.changed THEN 1 ELSE lastEval.pageIn

\* the inventory was evaluated on page 2 with only the sale filter changed
C3_Witness ==
  /\ lastEval.list = "inventory" /\ lastEval.changed /\ lastEval.pageIn = 2
  /\ inventorySaleFilter = "forsale"
  /\ inventorySearchQuery = <<"r", "e">>
  /\ inventoryRarityFilter = ""
  /\ invView.rendered /\ invView.page = 1

(***************************************************************************)
(* Failed reads.                                                           *)
(***************************************************************************)
\* the response of a read that failed is handled: the fetch or the parse
\* rejected, or the body is an error result without the expected data
FailedRead ==
  \E i \in 1..MaxInFlight :
    \/ MarketErrorResult(i)
    \/ \E r \in TestsForData : ErrorResultIgnored(r, i)
    \/ \E r \in Resources : FetchFailed(r, i)

\* C4: once a snapshot has been applied, handling a failed read leaves the
\* stored snapshots and what is rendered from them as they were.
C4_FailedReadKeepsSnapshot ==
  [][(mktView.rendered /\ FailedRead) =>
       UNCHANGED <<account, items, pets, marketItems, globalMessages,
                   invView, mktView, chatDom>>]_vars


(***************************************************************************)
(* Session: the life of the token of a user whose token is stored, over    *)
(* the results the service can give, logout and the reload.  The tick      *)
(* calls the six refresh functions in one callback; this specification     *)
(* follows the requests of SessionResources: one resource whose callback   *)
(* reacts to an error result, one with a snapshot and a counter whose      *)
(* callback does not, and the one fetched without a token.                 *)
(***************************************************************************)
SessionResources == {"account", "messages", "stats"}
SessionAccountData ==
  {AccountData("user", Ada, ItemsUpTo(3), <<1>>),
   AccountData("user", Ada, <<>>, <<>>),
   BannedData}
SessionStats == {"stats1"}

InitSession == Loaded(Tok, SessionResources)

TickSession == Tick(SessionResources)

NextSession ==
  \/ TickSession
  \/ \E i \in 1..MaxInFlight, d \in SessionAccountData : AccountResponse(i, d)
  \/ \E i \in 1..MaxInFlight : AccountRejected(i)
  \/ \E i \in 1..MaxInFlight : MessagesResponse(i, <<1>>)
  \/ \E i \in 1..MaxInFlight, d \in SessionStats : StatsResponse(i, d)
  \/ \E i \in 1..MaxInFlight, r \in TestsForData \cap SessionResources :
        ErrorResultIgnored(r, i)
  \/ \E i \in 1..MaxInFlight, r \in SessionResources : FetchFailed(r, i)
  \/ LogoutClick
  \/ ReloadCommit(SessionResources)

SpecSession == InitSession /\ [][NextSession]_vars

\* a response whose body is an error result is handled, for a request that
\* carried the token
ErrorResultDelivered ==
  \E i \in 1..MaxInFlight :
    \/ AccountRejected(i)
    \/ MarketErrorResult(i)
    \/ \E r \in TestsForData \ {"stats"} : ErrorResultIgnored(r, i)

\* C5: while a token is stored, the handling of an error result of any
\* polled resource removes the stored token and starts the reload that
\* brings the login form back.
C5_ErrorResultEndsSession ==
  [][(storedToken # NoToken /\ ErrorResultDelivered)
       => (storedToken' = NoToken /\ reloadPending')]_vars

\* C6: within one life of the page the forced logout (removeItem and
\* reload) is carried out at most once, however many responses are rejected.
C6_AtMostOneForcedLogout == forcedLogouts <= 1

\* C7: after the token has been removed and while the old document is still
\* live, no response changes a stored snapshot, a page, the unread counter
\* or a rendered list.
C7_LateResponseDiscarded ==
  [][(storedToken = NoToken /\ reloadPending /\ reloadPending')
       => UNCHANGED <<account, items, pets, globalMessages, unreadMessages,
                      inventoryPage, marketPage, invView, chatDom>>]_vars

\* C14 as stated: the account response that brings up the ban page is not
\* an error, so the stored snapshot is the fetched one afterwards.
C14_EveryResponseReplaces ==
  [][(~bannedPageShown /\ bannedPageShown') => account' = BannedData]_vars

\* C14: the stored snapshot is never a mixture: account, items and pets are
\* those of one fetched body that was neither an error nor a ban notice, or
\* all three are as declared.
C14_SnapshotReplacedWhole ==
  IF account = EmptyAccount
    THEN items = <<>> /\ pets = <<>>
    ELSE /\ account \in SessionAccountData \ {BannedData}
         /\ items = account.items
         /\ pets = account.pets

\* the snapshot without items or pets is stored (it replaced, or was kept
\* by, the other responses) while the ban page of a ban notice is up
C14_Witness ==
  /\ account = AccountData("user", Ada, <<>>, <<>>)
  /\ items = <<>>
  /\ pets = <<>>
  /\ invView.rendered
  /\ bannedPageShown

RequestIssued == \E r \in Resources : Len(inflight'[r]) > Len(inflight[r])

FailedReadOf(r) ==
  \E i \in 1..MaxInFlight :
    FetchFailed(r, i) \/ (r \in TestsForData /\ ErrorResultIgnored(r, i))

\* C29: a failed read takes its request out of flight and puts none in
\* (no retry), and leaves the script's token as it was; while the script
\* holds a token the tick is enabled whenever requests can be issued, and a
\* tick issues one request for every resource followed, the failed one
\* included.
C29_FailedReadWaitsForTheTick ==
  /\ [][\A r \in SessionResources :
          FailedReadOf(r) => (Handled(r) /\ UNCHANGED <<token, storedToken, reloadPending>>)]_vars
  /\ []((token # NoToken /\ CanIssue(SessionResources)) => ENABLED TickSession)
  /\ [][TickSession =>
          \A r \in SessionResources : Len(inflight'[r]) = Len(inflight[r]) + 1]_vars

\* an account and a stats request brought no data, no snapshot was ever
\* applied, and a tick after these failures has issued a request of every
\* resource again: two of each are in flight
C29_Witness ==
  /\ \A r \in SessionResources : inflight[r] = <<Tok, Tok>>
  /\ account = EmptyAccount
  /\ statsDom = NotRendered
  /\ lastFetched = NoneFetched
  /\ storedToken = Tok
  /\ ~bannedPageShown

WriteResources == {"account", "market"}
WritesAccountData == AccountData("user", Ada, ItemsUpTo(2), <<>>)
WritesMarket == ItemsUpTo(3)

InitWrites == Loaded(Tok, WriteResources)

TickWrites == Tick(WriteResources)

NextWrites ==
  \/ TickWrites
  \/ \E i \in 1..MaxInFlight : AccountResponse(i, WritesAccountData)
  \/ \E i \in 1..MaxInFlight : MarketResponse(i, WritesMarket)
  \/ createItem
  \/ mineTokens
  \/ \E id \in Range(WritesMarket) : buyItem(id)
  \/ \E id \in Range(WritesAccountData.items) : cancelSale(id)
  \/ \E id \in Range(WritesAccountData.items) : sellItem(id)
  \/ \E id \in Range(WritesAccountData.items) : viewSecret(id)
  \/ \E v \in PromptInputs \cup {NoValue} : ModalOk(v)
  \/ ModalCancel
  \/ ModalClose
  \/ \E i \in 1..MaxWrites, o \in WriteOutcomes : WriteResponse(i, o)
  \/ \E i \in 1..MaxWrites : WriteFetchFailed(i)

SpecWrites == InitWrites /\ [][NextWrites]_vars

\* C9: no line written to the console spells out an item secret.
C9_NoSecretInConsole == consoleLog.secrets = {}

\* C10: a write whose response was an error result raised an alert.
C10_FailedWriteAlerts == lastWrite.outcome = "error" => lastWrite.alerted

\* C11: a modal that is open is never replaced by another one: while it
\* stays shown its message and the handlers of its buttons stay as they
\* were, so the promise behind it is still the one a click resolves.
C11_OpenModalNotReplaced ==
  [][(modal.shown /\ modal'.shown) => modal' = modal]_vars

(***************************************************************************)
(* Navigation: both lists of a user whose token is stored, polled and      *)
(* paged through with the filter controls left blank.                      *)
(***************************************************************************)
NavResources == {"account", "market"}

InitNav == Loaded(Tok, NavResources)

TickNav == Tick(NavResources)

NextNav ==
  \/ TickNav
  \/ \E i \in 1..MaxInFlight, data \in InvAccountData : AccountResponse(i, data)
  \/ \E i \in 1..MaxInFlight, data \in Collections : MarketResponse(i, data)
  \/ InventoryPrev
  \/ InventoryNext
  \/ MarketPrev
  \/ MarketNext

SpecNav == InitNav /\ [][NextNav]_vars

\* entries (page-1)*5 + 1 .. page*5 of list, as far as list reaches
SliceWanted(list, page) ==
  LET first == (page - 1) * itemsPerPage + 1
      last == Min(page * itemsPerPage, Len(list))
  IN [k \in 1..Max(0, last - first + 1) |-> list[first + k - 1]]

\* the least number of pages of 5 that hold n entries
PagesWanted(n) ==
  CHOOSE t \in 0..n :
    /\ t * itemsPerPage >= n
    /\ t > 0 => (t - 1) * itemsPerPage < n

\* C18: each rendered list shows exactly the entries (page-1)*5+1 .. page*5
\* of its filtered set, in order and never more than 5, and reports
\* ceil(count/5) pages.
C18_VisibleSliceAndTotalPages ==
  /\ invView.rendered =>
       /\ invView.paged = SliceWanted(invView.list, invView.page)
       /\ Len(invView.paged) <= itemsPerPage
       /\ invView.totalPages = PagesWanted(Len(invView.list))
       /\ invView.page = inventoryPage
  /\ mktView.rendered =>
       /\ mktView.paged = SliceWanted(mktView.list, mktView.page)
       /\ Len(mktView.paged) <= itemsPerPage
       /\ mktView.totalPages = PagesWanted(Len(mktView.list))
       /\ mktView.page = marketPage

\* 12 unfiltered inventory items: page 1 shows items 1 to 5 of 3 pages,
\* while the market shows the two entries of its last page
C18_Witness ==
  /\ invView.rendered
  /\ Len(invView.list) = 12
  /\ invView.page = 1
  /\ invView.paged = <<1, 2, 3, 4, 5>>
  /\ invView.totalPages = 3
  /\ mktView.page = 3
  /\ Len(mktView.paged) = 2

\* C16: a step that changes the page of a list without a new snapshot of it
\* (a click on Previous or Next) moves the page by exactly one: down only
\* from a page above 1, up only from a page below totalPages of the list as
\* rendered (so never with totalPages = 0), and never around.
C16_NavigationStaysInside ==
  [][/\ (inventoryPage' # inventoryPage /\ items' = items /\ inflight' = inflight)
          => \/ inventoryPage' = inventoryPage - 1 /\ inventoryPage > 1
             \/ /\ inventoryPage' = inventoryPage + 1
                /\ inventoryPage < invView.totalPages
     /\ (marketPage' # marketPage /\ marketItems' = marketItems
                                  /\ inflight' = inflight)
          => \/ marketPage' = marketPage - 1 /\ marketPage > 1
             \/ /\ marketPage' = marketPage + 1
                /\ marketPage < mktView.totalPages]_vars

\* the inventory paged forward to its last page, and the market left on
\* page 2 of a listing that has become empty (totalPages 0)
C16_Witness ==
  /\ inventoryPage = 3
  /\ invView.page = 3
  /\ invView.totalPages = 3
  /\ invView.nextDisabled
  /\ marketPage = 2
  /\ mktView.page = 2
  /\ mktView.totalPages = 0
  /\ mktView.nextDisabled

(***************************************************************************)
(* Cooldowns: the account reconciliation at different times of the clock,  *)
(* for snapshots with different times of the last creation and the last    *)
(* mining.                                                                 *)
(***************************************************************************)
CooldownResources == {"account"}
\* the clock is read half a minute apart, on the second and 400 ms after it
ClockTimes ==
  {ClockStart + k * 30 * MsPerSecond + e : k \in 0..MaxClockSteps, e \in {0, 400}}
\* last_item_time: never, 90 s and 30 s before the page was loaded, at the load
ItemTimes == {0, ClockStart - 90 * MsPerSecond, ClockStart - 30 * MsPerSecond,
              ClockStart}
\* last_mine_time: never, 300 s and 270 s before the page was loaded
MineTimes == {0, ClockStart - 300 * MsPerSecond, ClockStart - 270 * MsPerSecond}
CooldownAccountData ==
  {[AccountData(type, Ada, <<>>, <<>>) EXCEPT !.last_item_time = li,
                                              !.last_mine_time = lm] :
     type \in {"user", "admin"}, li \in ItemTimes, lm \in MineTimes}

InitCooldown == Loaded(Tok, CooldownResources)

TickCooldown == Tick(CooldownResources)

\* time passes
ClockAdvance(t) ==
  /\ t \in ClockTimes
  /\ t > clock
  /\ clock' = t
  /\ UNCHANGED <<cooldownDom, mineCooldownDom, renderedAt>>
  /\ UNCHANGED <<sessionVars, netVars, chatVars, accountVars, invVars, mktVars,
                 renderedIds, newArrived, messageSound, domVars, modalVars,
                 writeVars, lastFetched, lastEval>>

NextCooldown ==
  \/ TickCooldown
  \/ \E i \in 1..MaxInFlight, data \in CooldownAccountData : AccountResponse(i, data)
  \/ \E t \in ClockTimes : ClockAdvance(t)

SpecCooldown == InitCooldown /\ [][NextCooldown]_vars

\* the line wanted for an action of the given duration in seconds: nothing
\* when no time remains, otherwise the least whole number of seconds that
\* covers what remains, with the bypass link for an admin only
WantedLine(seconds, now, last, role) ==
  LET remaining == seconds * 1000 - (now - last)
  IN IF remaining <= 0
       THEN [shown |-> FALSE, seconds |-> 0, bypass |-> FALSE]
       ELSE [shown |-> TRUE,
             seconds |-> CHOOSE k \in 1..(remaining \div 1000 + 1) :
                           (k - 1) * 1000 < remaining /\ remaining <= k * 1000,
             bypass |-> role = "admin"]

\* C21: the cooldown lines are those of durations 60 s (item creation) and
\* 300 s (mining) at the time the stored snapshot was applied: empty when
\* duration - (now - lastActionTime) <= 0, otherwise its ceiling in
\* seconds, with the bypass link only for a snapshot of role admin.
C21_CooldownLines ==
  renderedAt # 0 =>
    /\ cooldownDom = WantedLine(60, renderedAt, account.last_item_time, account.type)
    /\ mineCooldownDom = WantedLine(300, renderedAt, account.last_mine_time,
                                    account.type)

\* an admin's snapshot applied 30.4 s after the last creation and 300.4 s
\* after the last mining: 30 s shown with the link, no mining line
C21_Witness ==
  /\ account.type = "admin"
  /\ renderedAt - account.last_item_time = 30400
  /\ renderedAt - account.last_mine_time = 300400
  /\ cooldownDom = [shown |-> TRUE, seconds |-> 30, bypass |-> TRUE]
  /\ ~mineCooldownDom.shown

(***************************************************************************)
(* Roles: the account reconciliation for snapshots of every role, with     *)
(* the user switching between the tabs whose buttons are shown.            *)
(***************************************************************************)
RoleResources == {"account"}
RoleAccountData ==
  {AccountData(type, Ada, <<>>, <<>>) : type \in {"user", "mod", "admin"}}
    \cup {BannedData}

InitRoles == Loaded(Tok, RoleResources)

TickRoles == Tick(RoleResources)

NextRoles ==
  \/ TickRoles
  \/ \E i \in 1..MaxInFlight, data \in RoleAccountData : AccountResponse(i, data)
  \/ \E i \in 1..MaxInFlight : AccountRejected(i)
  \/ ReloadCommit(RoleResources)
  \/ \E t \in Tabs : SwitchTabClick(t)

SpecRoles == InitRoles /\ [][NextRoles]_vars

\* the panels a role may be on
PanelOpenTo(role, tab) ==
  /\ tab = "adminDashboard" => role = "admin"
  /\ tab = "modDashboard" => role = "mod"

\* C22: the active view is never a role-gated panel that the role of the
\* stored snapshot cannot access, and a reconciliation that takes the
\* user off a panel leaves them on the dashboard view.
C22_NoPanelWithoutRole ==
  [][/\ PanelOpenTo(account'.type, activeTab')
     /\ (account' # account /\ account' # EmptyAccount /\ activeTab' # activeTab)
          => activeTab' = "dashboard"]_vars

\* a mod who was on the mod dashboard has become an admin and is on the
\* dashboard view, with the admin button shown and the mod button hidden
C22_Witness ==
  /\ account.type = "admin"
  /\ activeTab = "dashboard"
  /\ adminTabShown /\ ~modTabShown
  /\ ~isChatFocused
  /\ lastEval.list = "inventory" /\ lastEval.tabIn = "modDashboard"

(***************************************************************************)
(* The three reconciled resources together: account, market and chat are   *)
(* polled by one tick and their responses and failures arrive in any       *)
(* order.                                                                  *)
(***************************************************************************)
ReconciledResources == {"account", "market", "messages"}
ReconciledAccountData ==
  {AccountData("user", Ada, ItemsUpTo(3), <<1>>),
   AccountData("admin", Ada, <<>>, <<>>)}
ReconciledMarketData == {<<>>, ItemsUpTo(3)}
ReconciledChatLists == {<<>>, <<1, 2>>}

InitReconciled == Loaded(Tok, ReconciledResources)

TickReconciled == Tick(ReconciledResources)

AccountApplied ==
  \E i \in 1..MaxInFlight, data \in ReconciledAccountData : AccountResponse(i, data)
MarketApplied ==
  \E i \in 1..MaxInFlight, data \in ReconciledMarketData : MarketResponse(i, data)
MessagesApplied ==
  \E i \in 1..MaxInFlight, fetched \in ReconciledChatLists :
    MessagesResponse(i, fetched)

NextReconciled ==
  \/ TickReconciled
  \/ AccountApplied
  \/ MarketApplied
  \/ MessagesApplied
  \/ \E r \in ReconciledResources, i \in 1..MaxInFlight : FetchFailed(r, i)

SpecReconciled == InitReconciled /\ [][NextReconciled]_vars

\* a request of resource r sent with the session's token is in flight
Pending(r) == \E i \in 1..Len(inflight[r]) : inflight[r][i] = Tok

\* C23: a step that handles the result of a market request leaves the
\* account snapshot, the inventory filter and page and the chat state as
\* they were; one that handles an account result leaves the market and the
\* chat state, one that handles a chat result the account, inventory and
\* market state; and a response of a resource can be applied whenever one
\* of its requests is in flight, whatever is pending for the others.
C23_ResourcesIndependent ==
  /\ [][/\ Handled("market") =>
            UNCHANGED <<account, items, pets, invFilterVars, inventoryPage, invView,
                        globalMessages, chatDom, unreadMessages, badge>>
        /\ Handled("account") =>
            UNCHANGED <<marketItems, mktFilterVars, marketPage, mktView,
                        globalMessages, chatDom, unreadMessages, badge>>
        /\ Handled("messages") =>
            UNCHANGED <<account, items, pets, invFilterVars, inventoryPage, invView,
                        marketItems, mktFilterVars, marketPage, mktView>>]_vars
  /\ [](/\ Pending("account") => ENABLED AccountApplied
        /\ Pending("market") => ENABLED MarketApplied
        /\ Pending("messages") => ENABLED MessagesApplied)

\* all three are stored, the market's with requests of the account and of
\* the chat still in flight
C23_Witness ==
  /\ marketItems = ItemsUpTo(3) /\ mktView.rendered
  /\ account.type = "user" /\ items = ItemsUpTo(3)
  /\ globalMessages = <<1, 2>> /\ unreadMessages = 2
  /\ inflight["account"] # <<>> /\ inflight["messages"] # <<>>
  /\ inflight["market"] = <<>>
(***************************************************************************)
(* The components that read the stored snapshots, beside the three         *)
(* reconciliations that write them: the user switches tabs, pages through  *)
(* the inventory and creates items.                                        *)
(***************************************************************************)
ReaderResources == {"account", "market", "messages"}
ReaderAccountData == AccountData("user", Ada, ItemsUpTo(itemsPerPage + 1), <<1>>)
ReaderMarket == ItemsUpTo(3)
ReaderChatList == <<1>>

InitReaders == Loaded(Tok, ReaderResources)

TickReaders == Tick(ReaderResources)

NextReaders ==
  \/ TickReaders
  \/ \E i \in 1..MaxInFlight : AccountResponse(i, ReaderAccountData)
  \/ \E i \in 1..MaxInFlight : MarketResponse(i, ReaderMarket)
  \/ \E i \in 1..MaxInFlight : MessagesResponse(i, ReaderChatList)
  \/ \E t \in {"dashboard", "chat"} : SwitchTabClick(t)
  \/ InventoryPrev
  \/ InventoryNext
  \/ createItem
  \/ ModalOk(NoValue)
  \/ \E i \in 1..MaxWrites, o \in WriteOutcomes : WriteResponse(i, o)

SpecReaders == InitReaders /\ [][NextReaders]_vars

\* C24: the stored snapshots change only in a step that handles the result
\* of a request of their own resource: account, items and pets with the
\* account's, marketItems with the market's, globalMessages with the
\* chat's; no tab switch, page click, write or modal click changes them.
C24_SnapshotsWrittenByOwnReconciliation ==
  [][/\ <<account, items, pets>>' # <<account, items, pets>> => Handled("account")
     /\ marketItems' # marketItems => Handled("market")
     /\ globalMessages' # globalMessages => Handled("messages")]_vars

\* every snapshot is stored as fetched after the user has created an item,
\* gone to the second inventory page and opened the chat
C24_Witness ==
  /\ account = ReaderAccountData
  /\ items = ReaderAccountData.items /\ pets = <<1>>
  /\ marketItems = ReaderMarket
  /\ globalMessages = ReaderChatList
  /\ lastWrite.op = "createItem" /\ lastWrite.outcome = "success"
  /\ ~modal.shown
  /\ inventoryPage = 2
  /\ activeTab = "chat"
(***************************************************************************)
(* The outcomes of writes: items are created, tokens mined and an item     *)
(* put on sale through the prompt, each write succeeding, answered with    *)
(* an error result or failing, while account and market are polled.        *)
(***************************************************************************)
OutcomeResources == {"account", "market"}
OutcomeAccountData == AccountData("user", Ada, ItemsUpTo(2), <<>>)
OutcomeMarket == ItemsUpTo(3)

InitOutcomes == Loaded(Tok, OutcomeResources)

TickOutcomes == Tick(OutcomeResources)

NextOutcomes ==
  \/ TickOutcomes
  \/ \E i \in 1..MaxInFlight : AccountResponse(i, OutcomeAccountData)
  \/ \E i \in 1..MaxInFlight : MarketResponse(i, OutcomeMarket)
  \/ createItem
  \/ mineTokens
  \/ sellItem(1)
  \/ \E v \in PromptInputs \cup {NoValue} : ModalOk(v)
  \/ ModalCancel
  \/ \E i \in 1..MaxWrites, o \in WriteOutcomes : WriteResponse(i, o)
  \/ \E i \in 1..MaxWrites : WriteFetchFailed(i)

SpecOutcomes == InitOutcomes /\ [][NextOutcomes]_vars

\* the alerts that report a write the service performed
SuccessAlerts ==
  {Msg("Created item: "), Msg("Mined tokens!"), Msg("Item listed for sale!"),
   Msg("Item purchased!"), Msg("Sale cancelled!")}

\* C25: a step that handles the response of a write that did not succeed
\* (an error result or a failed fetch) changes no stored snapshot, no filter
\* or page state and issues no request; and a click on the modal issues
\* requests only when the modal shows the alert of a successful write.
C25_FailedWriteDidNotHappen ==
  [][/\ (Len(writes') < Len(writes) /\ lastWrite'.outcome # "success")
          => UNCHANGED <<account, items, pets, marketItems, globalMessages,
                         invFilterVars, inventoryPage, invView,
                         mktFilterVars, marketPage, mktView, inflight>>
     /\ (modal.shown /\ ~modal'.shown /\ inflight' # inflight)
          => modal.message \in SuccessAlerts]_vars

\* the listing of item 1 was answered with an error result: its alert is
\* up, and the inventory and the market are as they were rendered
C25_Witness ==
  /\ lastWrite = [op |-> "sellItem", outcome |-> "error", alerted |-> TRUE]
  /\ modal.shown /\ modal.message = Msg("Error listing item.")
  /\ items = ItemsUpTo(2) /\ invView.rendered
  /\ marketItems = ItemsUpTo(3) /\ mktView.rendered
  /\ inflight["account"] = <<>> /\ inflight["market"] = <<>>
(***************************************************************************)
(* Chat order: the chat reconciliation for histories in the order the      *)
(* service sends them, which need not be the order of the ids, and for a   *)
(* history longer than the chat view keeps.                                *)
(***************************************************************************)
OrderResources == {"messages"}
OrderLists == {<<>>, <<1>>, <<2, 1>>, <<3, 1, 2>>, ManyMessages}

InitOrder == Loaded(Tok, OrderResources)

TickOrder == Tick(OrderResources)

NextOrder ==
  \/ TickOrder
  \/ \E t \in {"dashboard", "chat"} : SwitchTabClick(t)
  \/ \E i \in 1..MaxInFlight, fetched \in OrderLists : MessagesResponse(i, fetched)
  \/ SoundEnded

SpecOrder == InitOrder /\ [][NextOrder]_vars

\* the last n elements of s, all of s when it has no more than n
LastOf(s, n) == IF Len(s) > n THEN SubSeq(s, Len(s) - n + 1, Len(s)) ELSE s

\* C27: a chat response of a changed length leaves the stored list equal to
\* the fetched list, and the rendered messages are always the stored ones
\* in their order, the most recent MAX_DOM_MESSAGES of them when there are
\* more; none is left of an earlier render.
C27_OrderOfTheServiceKept ==
  /\ [](DomIds(chatDom) = LastOf(globalMessages, MAX_DOM_MESSAGES))
  /\ [][(Handled("messages") /\ lastFetched' # NoneFetched
          /\ Len(lastFetched') # Len(globalMessages))
           => /\ globalMessages' = lastFetched'
              /\ DomIds(chatDom') = LastOf(lastFetched', MAX_DOM_MESSAGES)]_vars

\* the history of 201 messages applied on the chat tab: its message 1 is
\* trimmed, 2 is the first shown and 201 the last
C27_Witness ==
  /\ globalMessages = ManyMessages
  /\ lastFetched = ManyMessages
  /\ Len(chatDom) = MAX_DOM_MESSAGES
  /\ chatDom[1].id = 2
  /\ chatDom[MAX_DOM_MESSAGES].id = MAX_DOM_MESSAGES + 1
  /\ renderedIds = Range(ManyMessages)

\* the container after the n-th appendMessage of a render of msgs, which
\* starts from the cleared container
RenderedAfter(msgs, n) ==
  HandleRange([unread |-> 0, badge |-> BadgeOf(0), mark |-> FALSE,
               sound |-> "idle", dom |-> <<>>], msgs, 1, n).dom

\* C39: after each appendMessage of a render the container holds at most
\* MAX_DOM_MESSAGES messages, and they are the most recently appended ones
\* in the order they were appended; the container on display is the one
\* the last appendMessage left.
C39_AtMostTheLast200 ==
  /\ Len(chatDom) <= MAX_DOM_MESSAGES
  /\ DomIds(chatDom) = DomIds(RenderedAfter(globalMessages, Len(globalMessages)))
  /\ \A n \in 0..Len(globalMessages) :
       LET d == RenderedAfter(globalMessages, n)
       IN /\ Len(d) = Min(n, MAX_DOM_MESSAGES)
          /\ \A k \in 1..Len(d) : d[k].id = globalMessages[n - Len(d) + k]

\* 201 messages were appended in one render: the container is full, and
\* the first message appended is the one that was removed
C39_Witness ==
  /\ Len(globalMessages) = MAX_DOM_MESSAGES + 1
  /\ Len(chatDom) = MAX_DOM_MESSAGES
  /\ globalMessages[1] \notin Range(DomIds(chatDom))
  /\ activeTab = "chat"
  /\ unreadMessages = 0

(***************************************************************************)
(* The unread counter among the other operations of the page: the chat     *)
(* reconciliation, tab switches by the user and by a change of role, the   *)
(* account reconciliation and a write.  The chat is followed tick by tick; *)
(* the account is read at the load and after each successful mining.       *)
(***************************************************************************)
UnreadLoaded == {"account", "messages"}
UnreadPolled == {"messages"}
UnreadAccountData ==
  {AccountData(type, Ada, <<>>, <<>>) : type \in {"user", "admin"}}
UnreadChatLists == {<<1>>, <<1, 2>>}
UnreadTabs == {"dashboard", "chat", "adminDashboard"}

InitUnread == Loaded(Tok, UnreadLoaded)

TickUnread == Tick(UnreadPolled)

NextUnread ==
  \/ TickUnread
  \/ \E i \in 1..MaxInFlight, data \in UnreadAccountData : AccountResponse(i, data)
  \/ \E i \in 1..MaxInFlight, fetched \in UnreadChatLists :
        MessagesResponse(i, fetched)
  \/ \E t \in UnreadTabs : SwitchTabClick(t)
  \/ mineTokens
  \/ ModalOk(NoValue)
  \/ \E i \in 1..MaxWrites, o \in WriteOutcomes : WriteResponse(i, o)

SpecUnread == InitUnread /\ [][NextUnread]_vars

\* C30: the unread count is a natural number, and a step changes it only
\* by setting it to 0 as the chat tab becomes the active one, or, in a step
\* that handles a chat response while another tab is active, by adding one
\* for each message of the response.
C30_UnreadChangesInTwoWays ==
  /\ [](unreadMessages \in Nat)
  /\ [][unreadMessages' # unreadMessages =>
          \/ /\ unreadMessages' = 0
             /\ activeTab' = "chat"
             /\ UNCHANGED inflight
          \/ /\ Handled("messages")
             /\ activeTab # "chat"
             /\ unreadMessages' = unreadMessages + Len(lastFetched')]_vars

\* 3 messages counted (one, then two), kept while mining succeeded and the
\* admin tab was taken away by the snapshot of role user read after it
C30_Witness ==
  /\ unreadMessages = 3
  /\ activeTab = "dashboard"
  /\ account.type = "user"
  /\ lastEval.list = "inventory" /\ lastEval.tabIn = "adminDashboard"
  /\ lastWrite.outcome = "success"

(***************************************************************************)
(* Pages: both lists polled, paged through and filtered by rarity, for a   *)
(* collection of two pages and an empty one.                               *)
(***************************************************************************)
PageResources == {"account", "market"}
PageCollections == {ItemsUpTo(0), ItemsUpTo(itemsPerPage + 1)}
PageAccountData ==
  {AccountData("user", Ada, its, <<>>) : its \in PageCollections}
PageInvCtls == {[InitialInvCtl EXCEPT !.rarity = r] : r \in Rarities}
PageMktCtls == {[InitialMktCtl EXCEPT !.rarity = r] : r \in Rarities}

InitPages == Loaded(Tok, PageResources)

TickPages == Tick(PageResources)

NextPages ==
  \/ TickPages
  \/ \E i \in 1..MaxInFlight, data \in PageAccountData : AccountResponse(i, data)
  \/ \E i \in 1..MaxInFlight, data \in PageCollections : MarketResponse(i, data)
  \/ \E c \in PageInvCtls : SetInventoryControl(c)
  \/ \E c \in PageMktCtls : SetMarketControl(c)
  \/ InventoryPrev
  \/ InventoryNext
  \/ MarketPrev
  \/ MarketNext

SpecPages == InitPages /\ [][NextPages]_vars

\* C32: inventoryPage and marketPage are integers not less than 1.
C32_PagesArePositive ==
  /\ inventoryPage \in Nat \ {0}
  /\ marketPage \in Nat \ {0}

\* both collections came back empty: the inventory, filtered by a rarity
\* no item has, is on page 1 and the market is still on its page 2
C32_Witness ==
  /\ invView.rendered /\ items = <<>> /\ inventoryPage = 1
  /\ inventoryRarityFilter = "epic"
  /\ mktView.rendered /\ marketItems = <<>> /\ marketPage = 2

(***************************************************************************)
(* Overlap: ticks issue requests of the market and of the account while    *)
(* earlier ones are in flight, and the responses arrive in any order.  The *)
(* order of issue is observed here.                                        *)
(***************************************************************************)
OverlapResources == {"account", "market"}
OverlapAccountData ==
  {AccountData("user", Ada, its, <<>>) : its \in {ItemsUpTo(1), ItemsUpTo(2)}}
OverlapMarket == {ItemsUpTo(1), ItemsUpTo(2)}

InitOverlap ==
  StateIs([PageState(Tok, OverlapResources) EXCEPT
             !.older = [r \in Resources |-> 0]])

TickOverlap == Tick(OverlapResources)

NextOverlap ==
  \/ TickOverlap
  \/ \E i \in 1..MaxInFlight, data \in OverlapAccountData : AccountResponse(i, data)
  \/ \E i \in 1..MaxInFlight, data \in OverlapMarket : MarketResponse(i, data)
  \/ \E i \in 1..MaxInFlight, r \in OverlapResources : FetchFailed(r, i)

SpecOverlap == InitOverlap /\ [][NextOverlap]_vars

\* C33: a response that is applied to the stored market list or account
\* is never the response of a request issued before the one whose response
\* was applied last: its request is not among the older ones in flight.
C33_SnapshotNeverGoesBack ==
  [][/\ \A i \in 1..MaxInFlight, data \in OverlapMarket :
          MarketResponse(i, data) => i > older["market"]
     /\ \A i \in 1..MaxInFlight, data \in OverlapAccountData :
          AccountResponse(i, data) => i > older["account"]]_vars

\* C36: in every state, from page load on, the focus flag is set exactly
\* when the active tab is the chat tab.
C36_FocusNotionsAgree == isChatFocused <=> (activeTab = "chat")

\* the controls the stored role shows on inventory cards and chat messages
InventoryControlsOf(type) == IF type = "admin" THEN {"edit", "delete"} ELSE {}
DeleteControlOf(type) == type \in {"admin", "mod"}

\* C37: the role-gated controls on display are those of the stored role:
\* the inventory cards carry edit and delete exactly when it is admin, and
\* every rendered chat message carries its delete control exactly when it
\* is admin or mod.
C37_ControlsFollowRole ==
  /\ invView.rendered => invView.controls = InventoryControlsOf(account.type)
  /\ \A k \in 1..Len(chatDom) : chatDom[k].del = DeleteControlOf(account.type)

\* C38: an applied ban notice hides the main content and shows the ban
\* page, leaving account, items, pets and the cooldown lines as they were;
\* an applied snapshot that is not a ban notice leaves the main content
\* shown and the ban page hidden.
C38_BanFollowsSnapshot ==
  [][\A i \in 1..MaxInFlight, data \in RoleAccountData :
       AccountResponse(i, data) =>
         IF data.banned
           THEN /\ ~mainContentShown' /\ bannedPageShown'
                /\ UNCHANGED <<account, items, pets, cooldownDom, mineCooldownDom>>
           ELSE mainContentShown' /\ ~bannedPageShown']_vars

(***************************************************************************)
(* Deleting: an administrator with items on display uses the Delete button *)
(* of a card and answers the confirmation; the write is answered or fails. *)
(***************************************************************************)
DeleteResources == {"account"}
DeleteAccountData ==
  {AccountData("admin", Ada, its, <<>>) : its \in {ItemsUpTo(1), ItemsUpTo(2)}}

InitDelete == Loaded(Tok, DeleteResources)

TickDelete == Tick(DeleteResources)

NextDelete ==
  \/ TickDelete
  \/ \E i \in 1..MaxInFlight, data \in DeleteAccountData : AccountResponse(i, data)
  \/ \E n \in 1..2 : deleteItem(n)
  \/ ModalOk(NoValue)
  \/ ModalCancel
  \/ ModalClose
  \/ \E i \in 1..MaxWrites, o \in WriteOutcomes : WriteResponse(i, o)
  \/ \E i \in 1..MaxWrites : WriteFetchFailed(i)

SpecDelete == InitDelete /\ [][NextDelete]_vars

\* the confirmation of a deletion is on display
Confirming ==
  /\ modal.shown
  /\ modal.message = Msg("Are you sure you want to delete this item?")

\* C34: a delete_item request is sent only by the step in which the user
\* answers the confirmation with OK: not by the click on Delete, not while
\* the confirmation is unanswered, not by Cancel or Close.
C34_DeleteOnlyAfterOk ==
  [][(/\ Len(writes') > Len(writes)
      /\ writes'[Len(writes')].op = "deleteItem")
       => (Confirming /\ ~modal'.shown /\ ~ModalCancel /\ ~ModalClose)]_vars

(***************************************************************************)
(* Prompts: an administrator edits an item, edits a user's tokens and bans *)
(* a user, answering each prompt of the sequence with OK, Cancel or Close. *)
(***************************************************************************)
PromptResources == {"account"}
PromptAccountData == AccountData("admin", Ada, ItemsUpTo(1), <<>>)
PromptTabs == {"dashboard", "adminDashboard"}

InitPrompts == Loaded(Tok, PromptResources)

TickPrompts == Tick(PromptResources)

NextPrompts ==
  \/ TickPrompts
  \/ \E i \in 1..MaxInFlight : AccountResponse(i, PromptAccountData)
  \/ \E t \in PromptTabs : SwitchTabClick(t)
  \/ editItem(1)
  \/ editTokensForUser
  \/ banUser
  \/ ModalCancel
  \/ ModalClose
  \/ \E v \in PromptInputs : ModalOk(v)
  \/ \E i \in 1..MaxWrites, o \in WriteOutcomes : WriteResponse(i, o)
  \/ \E i \in 1..MaxWrites : WriteFetchFailed(i)

SpecPrompts == InitPrompts /\ [][NextPrompts]_vars

\* C35: a prompt answered with Cancel or Close ends the operation: the
\* modal is hidden after the step, so no later prompt has been opened, and
\* no write request has been sent.
C35_CancelAborts ==
  [][(modal.shown /\ modal.input /\ (ModalCancel \/ ModalClose))
       => (~modal'.shown /\ writes' = writes)]_vars

====
